---- MODULE Spec2Model ----
(***************************************************************************)
(* gc3pie: the session driver (SessionBasedScript._main), the task engine  *)
(* it drives, the batch-system status parsers and the EC2 backend.         *)
(*                                                                         *)
(* Spec     the session driver: load, process_args, save, then the         *)
(*          progress() cycles of the engine, one step per task and phase.  *)
(* SpecEC2  EC2Lrms.submit_job called repeatedly on a pool of VMs.         *)
(* SpecDE   the differential evolution optimizer, driven step by step:     *)
(*          initial sample, evolve, re-evolve, evaluate and update.        *)
(* SpecSQL  the SQL store on its own: save, remove, change, restart.       *)
(* SpecPN   utils.progressive_number called from several processes.        *)
(* SpecPool Proxy objects in a MemoryPool backed by the SQL store.         *)
(***************************************************************************)
EXTENDS Integers, Sequences, FiniteSets, TLC

(***************************************************************************)
(* Bounds of the model.                                                    *)
(***************************************************************************)
MaxLoaded == 1      \* tasks in the session file loaded at start
MaxNewJobs == 2     \* items returned by new_tasks()
MaxTasks == 2       \* tasks in the session once process_args is done
MaxRunning == 2     \* largest value of the -J/--max-running option
MaxRetries == 1     \* max_retries of the retry policy wrapping each task
MaxVms == 2         \* VMs the EC2 cloud lets the account start
MaxJobs == 2        \* jobs handed to the EC2 backend
PopSize == 3        \* pop_size of the optimizer
Dim == 1            \* dim of the optimizer
BoxHi == 1          \* initial draws fall in 0..BoxHi (lower_bds, upper_bds)
MaxCoord == 2       \* coordinates followed: 0..MaxCoord
MaxVal == 1         \* objective values: 0..MaxVal
MaxIter == 2        \* iterations followed: cur_iter <= MaxIter
MaxIds == 3         \* ids a store hands out in one run
MaxProcs == 2       \* processes calling progressive_number()
MaxCalls == 4       \* calls of progressive_number() followed
MaxQty == 2         \* largest `qty` passed to progressive_number()
IdDigits == 1       \* digits written and read back in next_id.txt (8 in the code)
MaxProxies == 2     \* proxies created in one run
MaxClock == 2       \* largest value of time.time() followed
MaxPopSize == 5     \* largest pop_size an optimizer is constructed with
DrawFactor == 1     \* draws allowed per member, per unit of pop_size (100 in the code)
MaxStatus == 3      \* largest exit status a script, SystemExit or Abort carries
MaxDecoys == 6      \* largest value of grosetta's -P and -p options
MaxRuns == 3        \* invocations of grosetta on one session

JobNames == {"a", "b"}

(***************************************************************************)
(* gc3libs.Run.State                                                       *)
(***************************************************************************)
NEW_ == "NEW"     \* (NEW is a reserved word of TLA+)
SUBMITTED == "SUBMITTED"
RUNNING == "RUNNING"
STOPPED == "STOPPED"
TERMINATING == "TERMINATING"
TERMINATED == "TERMINATED"
UNKNOWN == "UNKNOWN"

RunState == {NEW_, SUBMITTED, RUNNING, STOPPED, TERMINATING, TERMINATED, UNKNOWN}

(***************************************************************************)
(* Native status words, as sequences of characters so that the parsers'    *)
(* comparisons and the substring test of the PBS parser are computed.      *)
(***************************************************************************)
LsfWords == { <<"P","E","N","D">>, <<"R","U","N">>, <<"D","O","N","E">>,
              <<"E","X","I","T">>, <<"S","S","U","S","P">>,
              <<"P","S","U","S","P">>, <<"U","S","U","S","P">>,
              <<"U","N","K","W","N">>, <<"Z","O","M","B","I">>,
              <<"r","u","n">>, << >> }

PbsWords == { <<"Q">>, <<"W">>, <<"R">>, <<"S">>, <<"H">>, <<"T">>,
              <<"C">>, <<"E">>, <<"q","h">>, <<"X">>,
              <<"E","q","h">>, <<"q","h","R">>, <<"h","q","w">>, <<"q">>,
              <<"r">>, << >> }

\* Python's `sub in s` for a two-character `sub`
Contains2(s, c1, c2) ==
  \E i \in 1..(Len(s) - 1) : s[i] = c1 /\ s[i + 1] = c2

\* a slip of the parser: RUN taken for a queued job
LsfParseStatOutput_RunQueued(stat) ==
  IF stat \in { <<"P","E","N","D">>, <<"R","U","N">> } THEN SUBMITTED
  ELSE IF stat \in { <<"D","O","N","E">>, <<"E","X","I","T">> } THEN TERMINATING
  ELSE UNKNOWN

\* LsfLrms._parse_stat_output: `stat` is fields[2] of the second line of bjobs
LsfParseStatOutput(stat) ==
  IF stat = <<"P","E","N","D">> THEN SUBMITTED
  ELSE IF stat = <<"R","U","N">> THEN RUNNING
  ELSE IF stat \in { <<"D","O","N","E">>, <<"E","X","I","T">> } THEN TERMINATING
  ELSE UNKNOWN

\* a slip of the parser: `'qh' == job_status` for `'qh' in job_status`
PbsParseStatOutput_ExactQh(job_status) ==
  IF job_status \in { <<"Q">>, <<"W">> } THEN SUBMITTED
  ELSE IF job_status \in { <<"R">> } THEN RUNNING
  ELSE IF job_status \in { <<"S">>, <<"H">>, <<"T">>, <<"q","h">> } THEN STOPPED
  ELSE IF job_status \in { <<"C">>, <<"E">> } THEN TERMINATING
  ELSE UNKNOWN

\* PbsLrms._parse_stat_output: `job_status` is field 4 of the qstat line
PbsParseStatOutput(job_status) ==
  IF job_status \in { <<"Q">>, <<"W">> } THEN SUBMITTED
  ELSE IF job_status \in { <<"R">> } THEN RUNNING
  ELSE IF job_status \in { <<"S">>, <<"H">>, <<"T">> }
          \/ Contains2(job_status, "q", "h") THEN STOPPED
  ELSE IF job_status \in { <<"C">>, <<"E">> } THEN TERMINATING
  ELSE UNKNOWN

(***************************************************************************)
(* State.                                                                  *)
(***************************************************************************)
VARIABLES
  tasks,          \* self.tasks: sequence of task records
  store,          \* self.store: persistent_id -> row of the jobs table
  index,          \* the session index file: sequence of rows
  pc,             \* position of the driver / of the engine inside progress()
  cursor,         \* position of the engine inside the current phase
  in_try,         \* control is inside the try block of _main's while loop
  exc,            \* what unwound out of _main: "none", "KeyboardInterrupt", "Error"
  rc,             \* exit code computed by the last loop()
  wait,           \* self.params.wait
  max_running,    \* self.params.max_running, given to the engine as max_in_flight
  lrms,           \* type of the batch system the tasks run on: "lsf" or "pbs"
  terminating,    \* tasks that moved into TERMINATING in this cycle
  polled,         \* tasks polled in this cycle
  attempted,      \* tasks whose submission was tried in this cycle
  errors,         \* tasks for which a backend call raised in this cycle
  still_in_flight,\* SUBMITTED + RUNNING tasks when the submit phase began
  were_new,       \* NEW tasks when the submit phase began
  fetches,        \* per task: fetch_output calls in its current run
  reports,        \* per task: how far its polls followed ScenarioReports
  vms,            \* EC2: instance id -> state of the instance
  resources,      \* EC2: self.resources, ids of the instances with a sub-resource
  jobs,           \* EC2: the job records handed to submit_job
  ec2_call,       \* EC2: the last call of the backend and what it did
  de_pc,          \* DE: step of the optimizer's driver
  variant,        \* DE: "gc3libs" (dif_evolution.py) or "ibf" (difEvoKenPrice.py)
  nlc,            \* DE: the constraint function installed
  de_strategy,    \* DE: self.de_strategy
  itermax,        \* DE: self.itermax
  y_conv_crit,    \* DE: self.y_conv_crit
  x_conv_crit,    \* DE: self.x_conv_crit
  cur_iter,       \* DE: self.cur_iter
  pop,            \* DE: self.pop
  S_vals,         \* DE: self.S_vals
  S_bestval,      \* DE: self.S_bestval
  best,           \* DE: self.best
  best_iter,      \* DE: self.best_iter
  ui,             \* DE: self.ui, the offspring handed out for evaluation
  S_tempvals,     \* DE: self.S_tempvals, the values the target gave for ui
  popNew,         \* DE: popNew of enforceConstrReEvolve, while it is short
  converged,      \* DE: what the last has_converged() returned
  exhausted,      \* DE: members for which the resample step ran out of draws
  db,             \* SQL: the jobs table of a store used on its own, id -> row
  objs,           \* SQL: the program's objects, by name
  assigned,       \* SQL: the ids idfactory.new() handed out, in order
  returned,       \* SQL: what the last save() returned
  sql_op,         \* SQL: the last operation on the store and its argument
  id_file,        \* PN: ~/.gc3/next_id.txt: whether it exists, its leading digits
  lock,           \* PN: the process holding the FileLock on it, 0 for none
  pn_pc,          \* PN: per process, its position inside progressive_number
  pn_qty,         \* PN: per process, the argument `qty`; 0 stands for None
  pn_read,        \* PN: per process, the digits id_file.read() gave it
  pn_floor,       \* PN: per process, the largest number returned before its call
  pn_out,         \* PN: the numbers returned by the calls completed so far
  pn_calls,       \* PN: calls made so far
  px,             \* pool: the proxies in self._proxies and their fields
  pool_db,        \* pool: the jobs table of the store behind the pool
  storage,        \* pool: self._storage is set
  maxobjects,     \* pool: self._maxobjects
  minobjects,     \* pool: self._minobjects; -1 stands for None
  clock,          \* pool: what time.time() returned last
  px_op,          \* pool: the last operation, its argument and what it gave
  mod_pc,         \* DE: "args", "built" or "modified"
  pop_size,       \* DE: the pop_size argument, then self.pop_size
  crossover_arg,  \* DE: the prob_crossover argument, in halves
  prob_crossover, \* DE: self.prob_crossover, in halves
  logged,         \* DE: the records handed to self.logger, in order
  shuffled,       \* DE: ind and a1..a5 of the last call of modify()
  rs_pc,          \* resample: "none", "for", "while" or "done"
  rs_nlc,         \* resample: the constraint function self.nlc
  rs_pop,         \* resample: the array pop
  ixEle,          \* resample: the member the for loop is at
  ctr,            \* resample: draws made for that member
  rs_draws,       \* resample: draws made for each member so far
  rs_log,         \* resample: the members for which the debug record was logged
  pa_tree,        \* process_args: the source tree whose cmdline.py runs
  pa_tasks,       \* process_args: self.tasks
  pa_names,       \* process_args: existing_job_names
  pa_items,       \* process_args: new_jobs
  pa_k,           \* process_args: the item the for loop is at
  pa_app,         \* process_args: the local variable app (<< >>: unbound)
  pa_pc,          \* process_args: "none", "loop", "done" or "raised"
  run_pc,         \* run: "none", "call" or "returned"
  run_exc,        \* run: what cli.app.CommandLineApp.run(self) raises or returns
  run_env,        \* run: whether self.log.critical works, and the verbosity
  run_result,     \* run: what run() returned, or the exception that left it
  total_decoys,   \* grosetta: self.params.total_decoys (-P)
  decoys_per_job, \* grosetta: self.params.decoys_per_job (-p)
  g_tasks,        \* grosetta: the jobnames of self.tasks, in order
  g_runs,         \* grosetta: invocations made on the session
  g_last          \* grosetta: the jobs the last invocation added, and
                  \*           whether it came with -P raised

driverVars == << tasks, store, index, pc, cursor, in_try, exc, rc, wait,
                 max_running, lrms, terminating, polled,
                 attempted, errors, still_in_flight, were_new, fetches, reports >>

ec2Vars == << vms, resources, jobs, ec2_call >>

deVars == << de_pc, variant, nlc, de_strategy, itermax, y_conv_crit,
             x_conv_crit, cur_iter, pop, S_vals, S_bestval, best, best_iter,
             ui, S_tempvals, popNew, converged, exhausted >>

sqlVars == << db, objs, assigned, returned, sql_op >>

pnVars == << id_file, lock, pn_pc, pn_qty, pn_read, pn_floor, pn_out,
            pn_calls >>

pxVars == << px, pool_db, storage, maxobjects, minobjects, clock, px_op >>

modVars == << mod_pc, pop_size, crossover_arg, prob_crossover, logged,
             shuffled >>

rsVars == << rs_pc, rs_nlc, rs_pop, ixEle, ctr, rs_draws, rs_log >>

paVars == << pa_tree, pa_tasks, pa_names, pa_items, pa_k, pa_app, pa_pc >>

runVars == << run_pc, run_exc, run_env, run_result >>

grosVars == << total_decoys, decoys_per_job, g_tasks, g_runs, g_last >>

extVars == << modVars, rsVars, paVars, runVars, grosVars >>

libVars == << sqlVars, pnVars, pxVars, extVars >>

vars == << driverVars, ec2Vars, deVars, libVars >>

\* no call of the EC2 backend made yet
NoCall ==
  [ op |-> "none", job |-> 0, visit |-> << >>, started |-> 0,
    raised |-> FALSE ]

(***************************************************************************)
(* Helpers.                                                                *)
(***************************************************************************)
MinOf(S) == CHOOSE x \in S : \A y \in S : x <= y

MaxOf(S) == CHOOSE x \in S : \A y \in S : x >= y

Smaller(a, b) == IF a <= b THEN a ELSE b

\* the first element of S at or after position c, or 0
FirstFrom(S, c) ==
  IF { i \in S : i >= c } = {} THEN 0 ELSE MinOf({ i \in S : i >= c })

InState(ts, states) == { i \in DOMAIN ts : ts[i].state \in states }

\* tasks counted against the cap: SUBMITTED or RUNNING
InFlight(ts) == Cardinality(InState(ts, {SUBMITTED, RUNNING}))

\* monitor: k entries of `seq` were followed so far (-1: departed from it)
Follow(k, seq, x) ==
  IF k >= 0 /\ k < Len(seq) /\ seq[k + 1] = x THEN k + 1 ELSE -1

ScenarioReports == << <<"P","E","N","D">>, <<"R","U","N">>, <<"D","O","N","E">> >>

(***************************************************************************)
(* Task records and the jobs table (sql_persistence.py).                   *)
(***************************************************************************)
\* lrms_jobid = 0: the execution has no `lrms_jobid` attribute;
\* persistent_id = 0: the object has no `persistent_id` attribute
NewTask(jobname) ==
  [ jobname |-> jobname, state |-> NEW_, lrms_jobid |-> 0,
    persistent_id |-> 0, retried |-> 0, failed |-> FALSE ]

\* the job id the batch system hands out for a submission of task i
JobId(i, retried) == i * (MaxRetries + 1) + retried

\* sql_next_id: max(id) + 1, or 1 on an empty table
sql_next_id(st) ==
  IF DOMAIN st = {} THEN 1 ELSE MaxOf(DOMAIN st) + 1

\* the columns _save_or_replace computes for a Task; jobid 0 stands for ''
Row(obj) ==
  [ data |-> obj, type |-> "job",
    jobid |-> IF obj.lrms_jobid # 0 THEN obj.lrms_jobid ELSE 0,
    jobname |-> obj.jobname, jobstatus |-> obj.state ]

\* a slip of the update branch: the jobid column is left as it was
SaveOrReplace_KeepJobid(st, id_, obj) ==
  IF id_ \in DOMAIN st
    THEN [ st EXCEPT ![id_] = [ Row(obj) EXCEPT !.jobid = st[id_].jobid ] ]
    ELSE (id_ :> Row(obj)) @@ st

\* SQL._save_or_replace: insert the row, or update every column of it
SaveOrReplace(st, id_, obj) ==
  IF id_ \in DOMAIN st
    THEN [ st EXCEPT ![id_] = Row(obj) ]
    ELSE (id_ :> Row(obj)) @@ st

\* a slip of save(): a new id is drawn at every save
SavedObj_Fresh(st, obj) ==
  [ obj EXCEPT !.persistent_id = sql_next_id(st) ]

\* SQL.save, the object half: persistent_id is assigned at the first save
SavedObj(st, obj) ==
  IF obj.persistent_id = 0
    THEN [ obj EXCEPT !.persistent_id = sql_next_id(st) ]
    ELSE obj

\* SQL.save, the table half
Save(st, obj) ==
  SaveOrReplace(st, SavedObj(st, obj).persistent_id, SavedObj(st, obj))

(***************************************************************************)
(* SessionBasedScript._save_session                                        *)
(***************************************************************************)
RECURSIVE SaveAllTasks(_, _, _)
\* the tasks after store.save() of tasks i.. in turn
SaveAllTasks(ts, st, i) ==
  IF i > Len(ts) THEN ts
  ELSE SaveAllTasks([ ts EXCEPT ![i] = SavedObj(st, ts[i]) ], Save(st, ts[i]), i + 1)

RECURSIVE SaveAllStore(_, _, _)
\* the table after store.save() of tasks i.. in turn
SaveAllStore(ts, st, i) ==
  IF i > Len(ts) THEN st
  ELSE SaveAllStore(ts, Save(st, ts[i]), i + 1)

\* a slip: the store argument is ignored
SessionStore_Ignored(ts, st, with_store) == st

\* _save_session: `if store is not None: store.save(task)` for every task
SessionStore(ts, st, with_store) ==
  IF with_store THEN SaveAllStore(ts, st, 1) ELSE st

SessionTasks(ts, st, with_store) ==
  IF with_store THEN SaveAllTasks(ts, st, 1) ELSE ts

\* _save_session: one row per task: jobname, persistent_id, state
IndexRows(ts) ==
  [ i \in DOMAIN ts |->
      [ jobname |-> ts[i].jobname, persistent_id |-> ts[i].persistent_id,
        state |-> ts[i].state ] ]

(***************************************************************************)
(* SessionBasedScript.process_args                                         *)
(***************************************************************************)
NewJobItems == [ jobname : JobNames, raises : BOOLEAN ]

RECURSIVE SeqsUpTo(_, _)
SeqsUpTo(S, n) ==
  IF n = 0 THEN { << >> }
  ELSE SeqsUpTo(S, n - 1) \cup
       { Append(q, x) : q \in { r \in SeqsUpTo(S, n - 1) : Len(r) = n - 1 }, x \in S }

RECURSIVE AddNewJobs(_, _, _, _)
\* the loop over new_jobs: `existing_job_names` is computed once, before it
AddNewJobs(ts, existing_job_names, new_jobs, k) ==
  IF k > Len(new_jobs) THEN ts
  ELSE IF new_jobs[k].jobname \in existing_job_names
    THEN AddNewJobs(ts, existing_job_names, new_jobs, k + 1)
  ELSE IF new_jobs[k].raises
    THEN AddNewJobs(ts, existing_job_names, new_jobs, k + 1)
  ELSE AddNewJobs(Append(ts, NewTask(new_jobs[k].jobname)),
                  existing_job_names, new_jobs, k + 1)

process_args(ts, new_jobs) ==
  AddNewJobs(ts, { ts[i].jobname : i \in DOMAIN ts }, new_jobs, 1)

(***************************************************************************)
(* The session a run starts from: what _load_session read from the index.  *)
(***************************************************************************)
LoadedTask(jobname, state, id_) ==
  [ jobname |-> jobname, state |-> state,
    lrms_jobid |-> IF state = NEW_ THEN 0 ELSE JobId(id_, 0),
    persistent_id |-> id_, retried |-> 0, failed |-> FALSE ]

LoadedSessions ==
  { [ i \in DOMAIN q |-> LoadedTask(q[i][1], q[i][2], i) ] :
      q \in { r \in SeqsUpTo(JobNames \X RunState, MaxLoaded) :
                \A i, j \in DOMAIN r : i # j => r[i][1] # r[j][1] } }

\* DifferentialEvolution.__init__: the fields a new optimizer starts with
\* (pop, S_vals and S_bestval are not set before the first iteration)
Zeros == [ d \in 1..Dim |-> 0 ]

DEConstructed(v, f, strat, imax, ycrit, xcrit) ==
  /\ de_pc = "idle"
  /\ variant = v
  /\ nlc = f
  /\ de_strategy = strat
  /\ itermax = imax
  /\ y_conv_crit = ycrit
  /\ x_conv_crit = xcrit
  /\ cur_iter = -1
  /\ pop = << >>
  /\ S_vals = << >>
  /\ S_bestval = 0
  /\ best = Zeros
  /\ best_iter = Zeros
  /\ ui = << >>
  /\ S_tempvals = << >>
  /\ popNew = << >>
  /\ converged = FALSE
  /\ exhausted = {}

\* the session driver, the EC2 backend and the optimizer use no store of
\* their own
SQLNotUsed ==
  /\ db = << >>
  /\ objs = << >>
  /\ assigned = << >>
  /\ returned = 0
  /\ sql_op = << "none", "none" >>

PNNotUsed ==
  /\ id_file = [ exists |-> FALSE, text |-> << >> ]
  /\ lock = 0
  /\ pn_pc = << >>
  /\ pn_qty = << >>
  /\ pn_read = << >>
  /\ pn_floor = << >>
  /\ pn_out = {}
  /\ pn_calls = 0

PXNotUsed ==
  /\ px = << >>
  /\ pool_db = << >>
  /\ storage = FALSE
  /\ maxobjects = 0
  /\ minobjects = -1
  /\ clock = 0
  /\ px_op = [ op |-> "none", p |-> 0, result |-> 0, error |-> "none",
               raised |-> FALSE ]

ModNotUsed ==
  /\ mod_pc = "none"
  /\ pop_size = 0
  /\ crossover_arg = 0
  /\ prob_crossover = 0
  /\ logged = << >>
  /\ shuffled = << >>

RsNotUsed ==
  /\ rs_pc = "none"
  /\ rs_nlc = "default"
  /\ rs_pop = << >>
  /\ ixEle = 0
  /\ ctr = 0
  /\ rs_draws = << >>
  /\ rs_log = {}

PaNotUsed ==
  /\ pa_tree = "none"
  /\ pa_tasks = << >>
  /\ pa_names = {}
  /\ pa_items = << >>
  /\ pa_k = 0
  /\ pa_app = << >>
  /\ pa_pc = "none"

RunNotUsed ==
  /\ run_pc = "none"
  /\ run_exc = [ kind |-> "none", code |-> 0 ]
  /\ run_env = [ logging |-> TRUE, backtrace |-> FALSE ]
  /\ run_result = [ returned |-> 0, escaped |-> "none" ]

GrosNotUsed ==
  /\ total_decoys = 0
  /\ decoys_per_job = 0
  /\ g_tasks = << >>
  /\ g_runs = 0
  /\ g_last = [ added |-> << >>, raised |-> FALSE ]

ExtNotUsed ==
  ModNotUsed /\ RsNotUsed /\ PaNotUsed /\ RunNotUsed /\ GrosNotUsed

LibNotUsed == SQLNotUsed /\ PNNotUsed /\ PXNotUsed /\ ExtNotUsed

\* no optimizer takes part in a run of the session driver
DENotUsed == DEConstructed("gc3libs", "default", 1, 0, 0, 0)

RECURSIVE StoreOf(_, _)
StoreOf(ts, i) ==
  IF i > Len(ts) THEN << >> ELSE (i :> Row(ts[i])) @@ StoreOf(ts, i + 1)

Init ==
  /\ tasks \in LoadedSessions
  /\ store = StoreOf(tasks, 1)
  /\ index = IndexRows(tasks)
  /\ pc = "process_args"
  /\ cursor = 1
  /\ in_try = FALSE
  /\ exc = "none"
  /\ rc = 0
  /\ wait \in {0, 1}
  /\ max_running \in 1..MaxRunning
  /\ InFlight(tasks) <= max_running
  /\ lrms \in {"lsf", "pbs"}
  /\ terminating = {}
  /\ polled = {}
  /\ attempted = {}
  /\ errors = {}
  /\ still_in_flight = 0
  /\ were_new = 0
  /\ fetches \in [ DOMAIN tasks -> {0, 1} ]
  /\ \A i \in DOMAIN tasks :
       /\ tasks[i].state = TERMINATED => fetches[i] = 1
       /\ tasks[i].state \notin {TERMINATING, TERMINATED} => fetches[i] = 0
  /\ reports = [ i \in DOMAIN tasks |-> IF tasks[i].state = NEW_ THEN 0 ELSE -1 ]
  /\ vms = << >>
  /\ resources = {}
  /\ jobs = << >>
  /\ ec2_call = NoCall
  /\ DENotUsed
  /\ LibNotUsed

(***************************************************************************)
(* SessionBasedScript._main, up to the creation of the engine.             *)
(***************************************************************************)
\* monitor `m` extended to the tasks appended by process_args
Extended(m, ts, v) ==
  [ i \in DOMAIN ts |-> IF i \in DOMAIN m THEN m[i] ELSE v ]

\* self.process_args(), for any list new_tasks() may return
ProcessArgs ==
  /\ pc = "process_args"
  /\ \E new_jobs \in SeqsUpTo(NewJobItems, MaxNewJobs) :
       /\ tasks' = process_args(tasks, new_jobs)
       /\ Len(tasks') <= MaxTasks
       /\ fetches' = Extended(fetches, tasks', 0)
       /\ reports' = Extended(reports, tasks', 0)
  /\ pc' = "save_session"
  /\ UNCHANGED << store, index, cursor, in_try, exc, rc, wait, max_running,
                  lrms, terminating, polled, attempted, errors,
                  still_in_flight, were_new >>
  /\ UNCHANGED << ec2Vars, deVars, libVars >>

\* self._save_session(self.store)
SaveSession ==
  /\ pc = "save_session"
  /\ tasks' = SessionTasks(tasks, store, TRUE)
  /\ store' = SessionStore(tasks, store, TRUE)
  /\ index' = IndexRows(tasks')
  /\ pc' = "loop"
  /\ UNCHANGED << cursor, in_try, exc, rc, wait, max_running, lrms,
                  terminating, polled, attempted, errors,
                  still_in_flight, were_new, fetches, reports >>
  /\ UNCHANGED << ec2Vars, deVars, libVars >>

(***************************************************************************)
(* The engine's progress(): poll, fetch output, submit; every record that  *)
(* a step changes is written through to the store in that step.            *)
(***************************************************************************)
Pollable == {SUBMITTED, RUNNING, STOPPED, UNKNOWN}

\* the status words the batch system of this session can report
StatusWords == IF lrms = "lsf" THEN LsfWords ELSE PbsWords

\* the backend's poll_status: the parser of the batch system, on the word
ParseStatOutput(stat) ==
  IF lrms = "lsf" THEN LsfParseStatOutput(stat) ELSE PbsParseStatOutput(stat)

\* an engine that lets hard errors through
EngineCatches_NotFatal(kind) == kind # "fatal"

\* errors of backend calls are caught at the engine boundary
EngineCatches(kind) == TRUE

\* the first round of loop(), or the next one after the sleep
LoopStart ==
  /\ pc \in {"loop", "sleep"}
  /\ pc' = "poll"
  /\ cursor' = 1
  /\ UNCHANGED << tasks, store, index, in_try, exc, rc, wait, max_running, lrms,
                  terminating, polled, attempted, errors, still_in_flight,
                  were_new, fetches, reports >>
  /\ UNCHANGED << ec2Vars, deVars, libVars >>

\* step 1, one task: the backend reports `stat`, the state becomes its image
PollReport ==
  /\ pc = "poll"
  /\ LET i == FirstFrom(InState(tasks, Pollable), cursor) IN
       /\ i # 0
       /\ \E stat \in StatusWords :
            LET new == ParseStatOutput(stat) IN
              /\ tasks' = [ tasks EXCEPT ![i].state = new ]
              /\ reports' = [ reports EXCEPT ![i] = Follow(@, ScenarioReports, stat) ]
              /\ store' = IF new = tasks[i].state THEN store
                          ELSE Save(store, tasks'[i])
              /\ terminating' = IF new = TERMINATING
                                  THEN terminating \cup {i} ELSE terminating
       /\ polled' = polled \cup {i}
       /\ cursor' = i + 1
  /\ UNCHANGED << index, pc, in_try, exc, rc, wait, max_running, lrms,
                  attempted, errors, still_in_flight, were_new, fetches >>
  /\ UNCHANGED << ec2Vars, deVars, libVars >>

\* step 1, one task: the backend cannot be reached; the state is left alone
PollError ==
  /\ pc = "poll"
  /\ LET i == FirstFrom(InState(tasks, Pollable), cursor) IN
       /\ i # 0
       /\ errors' = errors \cup {i}
       /\ polled' = polled \cup {i}
       /\ reports' = [ reports EXCEPT ![i] = -1 ]
       /\ cursor' = i + 1
  /\ IF EngineCatches("recoverable")
       THEN UNCHANGED << pc, exc >>
       ELSE pc' = "exit" /\ exc' = "Error"
  /\ UNCHANGED << tasks, store, index, in_try, rc, wait, max_running, lrms,
                  terminating, attempted, still_in_flight,
                  were_new, fetches >>
  /\ UNCHANGED << ec2Vars, deVars, libVars >>

PollEnd ==
  /\ pc = "poll"
  /\ FirstFrom(InState(tasks, Pollable), cursor) = 0
  /\ pc' = "fetch"
  /\ cursor' = 1
  /\ UNCHANGED << tasks, store, index, in_try, exc, rc, wait, max_running,
                  lrms, terminating, polled, attempted, errors,
                  still_in_flight, were_new, fetches, reports >>
  /\ UNCHANGED << ec2Vars, deVars, libVars >>

\* a retry policy that never looks at the number of retries made
Outcomes_Unbounded(task) ==
  {"ok", "failed", "resubmit"}

\* what on_terminated may decide: the retry policy resubmits at most MaxRetries times
Outcomes(task) ==
  {"ok", "failed"} \cup (IF task.retried < MaxRetries THEN {"resubmit"} ELSE {})

\* the resubmission helper: back to NEW, the job id of the previous run cleared
Resubmitted(task) ==
  [ task EXCEPT !.state = NEW_, !.lrms_jobid = 0, !.retried = @ + 1,
                !.failed = FALSE ]

\* step 2, one task that just became TERMINATING: output fetched, TERMINATED,
\* then on_terminated
FetchOutput ==
  /\ pc = "fetch"
  /\ LET i == FirstFrom(terminating, cursor) IN
       /\ i # 0
       /\ \E outcome \in Outcomes(tasks[i]) :
            IF outcome = "resubmit"
              THEN /\ tasks' = [ tasks EXCEPT ![i] = Resubmitted(@) ]
                   /\ fetches' = [ fetches EXCEPT ![i] = 0 ]
                   /\ reports' = [ reports EXCEPT ![i] = 0 ]
              ELSE /\ tasks' = [ tasks EXCEPT ![i].state = TERMINATED,
                                              ![i].failed = (outcome = "failed") ]
                   /\ fetches' = [ fetches EXCEPT ![i] = @ + 1 ]
                   /\ reports' = reports
       /\ store' = Save(store, tasks'[i])
       /\ cursor' = i + 1
  /\ UNCHANGED << index, pc, in_try, exc, rc, wait, max_running, lrms,
                  terminating, polled, attempted, errors,
                  still_in_flight, were_new >>
  /\ UNCHANGED << ec2Vars, deVars, libVars >>

\* step 2, one task: fetch_output raises; the task is not marked TERMINATED
FetchError ==
  /\ pc = "fetch"
  /\ LET i == FirstFrom(terminating, cursor) IN
       /\ i # 0
       /\ fetches' = [ fetches EXCEPT ![i] = @ + 1 ]
       /\ errors' = errors \cup {i}
       /\ cursor' = i + 1
  /\ IF EngineCatches("recoverable")
       THEN UNCHANGED << pc, exc >>
       ELSE pc' = "exit" /\ exc' = "Error"
  /\ UNCHANGED << tasks, store, index, in_try, rc, wait, max_running, lrms,
                  terminating, polled, attempted,
                  still_in_flight, were_new, reports >>
  /\ UNCHANGED << ec2Vars, deVars, libVars >>

FetchEnd ==
  /\ pc = "fetch"
  /\ FirstFrom(terminating, cursor) = 0
  /\ pc' = "submit"
  /\ cursor' = 1
  /\ still_in_flight' = InFlight(tasks)
  /\ were_new' = Cardinality(InState(tasks, {NEW_}))
  /\ UNCHANGED << tasks, store, index, in_try, exc, rc, wait, max_running,
                  lrms, terminating, polled, attempted, errors,
                  fetches, reports >>
  /\ UNCHANGED << ec2Vars, deVars, libVars >>

\* step 3 goes on while the count is below the cap and NEW tasks remain
CanSubmit ==
  /\ InFlight(tasks) < max_running
  /\ FirstFrom(InState(tasks, {NEW_}), cursor) # 0

\* step 3, the next NEW task: submitted, the job id recorded
SubmitOk ==
  /\ pc = "submit"
  /\ CanSubmit
  /\ LET i == FirstFrom(InState(tasks, {NEW_}), cursor) IN
       /\ tasks' = [ tasks EXCEPT ![i].state = SUBMITTED,
                                  ![i].lrms_jobid = JobId(i, tasks[i].retried) ]
       /\ store' = Save(store, tasks'[i])
       /\ attempted' = attempted \cup {i}
       /\ cursor' = i + 1
  /\ UNCHANGED << index, pc, in_try, exc, rc, wait, max_running, lrms,
                  terminating, polled, errors, still_in_flight, were_new, fetches,
                  reports >>
  /\ UNCHANGED << ec2Vars, deVars, libVars >>

\* step 3, the next NEW task: submit raises; the task stays NEW
SubmitError ==
  /\ pc = "submit"
  /\ CanSubmit
  /\ LET i == FirstFrom(InState(tasks, {NEW_}), cursor) IN
       /\ errors' = errors \cup {i}
       /\ attempted' = attempted \cup {i}
       /\ cursor' = i + 1
  /\ \E kind \in {"recoverable", "fatal"} :
       IF EngineCatches(kind)
         THEN UNCHANGED << pc, exc >>
         ELSE pc' = "exit" /\ exc' = "Error"
  /\ UNCHANGED << tasks, store, index, in_try, rc, wait, max_running, lrms,
                  terminating, polled, still_in_flight,
                  were_new, fetches, reports >>
  /\ UNCHANGED << ec2Vars, deVars, libVars >>

SubmitEnd ==
  /\ pc = "submit"
  /\ ~ CanSubmit
  /\ pc' = "stats"
  /\ UNCHANGED << tasks, store, index, cursor, in_try, exc, rc, wait,
                  max_running, lrms, terminating, polled,
                  attempted, errors, still_in_flight, were_new, fetches,
                  reports >>
  /\ UNCHANGED << ec2Vars, deVars, libVars >>

(***************************************************************************)
(* SessionBasedScript._main: loop(), the while loop around it, the exit.   *)
(***************************************************************************)
\* stats['failed']
Failed(ts) == { i \in DOMAIN ts : ts[i].state = TERMINATED /\ ts[i].failed }

\* the exit code of loop(), SUBMITTED tasks left out of bit 2
ExitCode_RunningOnly(ts) ==
  (IF Failed(ts) # {} THEN 2 ELSE 0)
  + (IF InState(ts, {RUNNING}) # {} THEN 4 ELSE 0)
  + (IF InState(ts, {NEW_}) # {} THEN 8 ELSE 0)

\* the exit code loop() computes from the stats
ExitCode(ts) ==
  (IF Failed(ts) # {} THEN 2 ELSE 0)
  + (IF InState(ts, {RUNNING}) # {} \/ InState(ts, {SUBMITTED}) # {} THEN 4 ELSE 0)
  + (IF InState(ts, {NEW_}) # {} THEN 8 ELSE 0)

\* loop(), after progress() returned: stats and exit code; the cycle is over
Stats ==
  /\ pc = "stats"
  /\ rc' = ExitCode(tasks)
  /\ pc' = "returned"
  /\ cursor' = 1
  /\ terminating' = {}
  /\ polled' = {}
  /\ attempted' = {}
  /\ errors' = {}
  /\ still_in_flight' = 0
  /\ were_new' = 0
  /\ UNCHANGED << tasks, store, index, in_try, exc, wait, max_running, lrms,
                  fetches, reports >>
  /\ UNCHANGED << ec2Vars, deVars, libVars >>

\* `if self.params.wait > 0: try: while rc > 3: sleep; rc = loop()`
AfterLoop ==
  /\ pc = "returned"
  /\ IF (in_try \/ wait > 0) /\ rc > 3
       THEN pc' = "sleep" /\ in_try' = TRUE
       ELSE pc' = "final_save" /\ in_try' = FALSE
  /\ UNCHANGED << tasks, store, index, cursor, exc, rc, wait, max_running,
                  lrms, terminating, polled, attempted, errors,
                  still_in_flight, were_new, fetches, reports >>
  /\ UNCHANGED << ec2Vars, deVars, libVars >>

\* Ctrl+C while loop() runs or during the sleep: caught by the `except
\* KeyboardInterrupt` of the while loop, or, in the first round, by nothing;
\* the cycle is abandoned
KeyboardInterrupt ==
  /\ pc \in {"poll", "fetch", "submit", "stats", "sleep"}
  /\ IF in_try
       THEN pc' = "final_save" /\ exc' = exc
       ELSE pc' = "exit" /\ exc' = "KeyboardInterrupt"
  /\ in_try' = FALSE
  /\ cursor' = 1
  /\ terminating' = {}
  /\ polled' = {}
  /\ attempted' = {}
  /\ errors' = {}
  /\ still_in_flight' = 0
  /\ were_new' = 0
  /\ UNCHANGED << tasks, store, index, rc, wait, max_running, lrms, fetches,
                  reports >>
  /\ UNCHANGED << ec2Vars, deVars, libVars >>

\* self._save_session(), then `return rc`
FinalSave ==
  /\ pc = "final_save"
  /\ tasks' = SessionTasks(tasks, store, FALSE)
  /\ store' = SessionStore(tasks, store, FALSE)
  /\ index' = IndexRows(tasks')
  /\ pc' = "exit"
  /\ UNCHANGED << cursor, in_try, exc, rc, wait, max_running, lrms,
                  terminating, polled, attempted, errors,
                  still_in_flight, were_new, fetches, reports >>
  /\ UNCHANGED << ec2Vars, deVars, libVars >>

Next ==
  \/ ProcessArgs
  \/ SaveSession
  \/ LoopStart
  \/ PollReport
  \/ PollError
  \/ PollEnd
  \/ FetchOutput
  \/ FetchError
  \/ FetchEnd
  \/ SubmitOk
  \/ SubmitError
  \/ SubmitEnd
  \/ Stats
  \/ AfterLoop
  \/ KeyboardInterrupt
  \/ FinalSave

Spec == Init /\ [][Next]_vars

(***************************************************************************)
(* EC2Lrms.submit_job, as the engine calls it for a NEW job.               *)
(***************************************************************************)
NewJob ==
  [ state |-> NEW_, ec2_instance_id |-> 0, changed |-> FALSE, lrms_jobid |-> 0,
    ec2_used_instance_ids |-> << >> ]

InitEC2 ==
  /\ vms = << >>
  /\ resources = {}
  /\ jobs = [ j \in 1..MaxJobs |-> NewJob ]
  /\ ec2_call = NoCall
  /\ DENotUsed
  /\ LibNotUsed
  /\ tasks = << >>
  /\ store = << >>
  /\ index = << >>
  /\ pc = "ec2"
  /\ cursor = 1
  /\ in_try = FALSE
  /\ exc = "none"
  /\ rc = 0
  /\ wait = 0
  /\ max_running = 1
  /\ lrms = "ec2"
  /\ terminating = {}
  /\ polled = {}
  /\ attempted = {}
  /\ errors = {}
  /\ still_in_flight = 0
  /\ were_new = 0
  /\ fetches = << >>
  /\ reports = << >>

Perms(S) ==
  { q \in [ 1..Cardinality(S) -> S ] : \A i, j \in DOMAIN q : i # j => q[i] # q[j] }

\* what the visit of one started VM can end in: _get_remote_resource connects
\* to a VM not yet in self.resources (RecoverableError when it cannot, as for
\* a VM that is not running), then resource.submit_job(job) succeeds, raises
\* LRMSSubmitError (no free slots) or raises something else
VisitResults(id) ==
  IF id \in resources
    THEN IF vms[id] = "running" THEN {"ok", "noslots", "fail"} ELSE {"fail"}
    ELSE IF vms[id] = "running"
           THEN {"ok", "noslots", "fail", "unreachable"}
           ELSE {"unreachable"}

\* the loop with `except RecoverableError: continue` as well: a VM that
\* cannot be reached is skipped like a full one
FirstNotFull_SkipUnreachable(order, visit) ==
  FirstFrom({ k \in DOMAIN order :
                visit[order[k]] \notin { "noslots", "unreachable" } }, 1)

\* `for instance in self._get_vms().values()`: the position in `order` of the
\* first VM whose visit is not skipped by `except LRMSSubmitError: continue`,
\* or 0 when every started VM reported no free slots
FirstNotFull(order, visit) ==
  FirstFrom({ k \in DOMAIN order : visit[order[k]] # "noslots" }, 1)

\* the VMs the loop reached
Reached(order, visit) ==
  IF FirstNotFull(order, visit) = 0
    THEN { order[k] : k \in DOMAIN order }
    ELSE { order[k] : k \in 1..FirstNotFull(order, visit) }

\* self.resources after the loop: every VM reached and connected to
Connected(order, visit) ==
  resources \cup { id \in Reached(order, visit) : visit[id] # "unreachable" }

\* what one call of submit_job did: the result of every visit the loop
\* made, the VM it started (0: none), and whether it raised
SubmitCall(j, order, visit, id, raised) ==
  [ op |-> "submit", job |-> j,
    visit |-> [ v \in Reached(order, visit) |-> visit[v] ],
    started |-> id, raised |-> raised ]

\* the job is accepted by the sub-resource of a started VM
SubmitOnStartedVm(j) ==
  /\ jobs[j].state = NEW_
  /\ \E order \in Perms(DOMAIN vms), visit \in [ DOMAIN vms -> {"ok", "noslots", "fail", "unreachable"} ] :
       /\ \A id \in DOMAIN vms : visit[id] \in VisitResults(id)
       /\ FirstNotFull(order, visit) # 0
       /\ visit[order[FirstNotFull(order, visit)]] = "ok"
       /\ resources' = Connected(order, visit)
       /\ jobs' = [ jobs EXCEPT ![j] =
                      [ state |-> SUBMITTED,
                        ec2_instance_id |-> order[FirstNotFull(order, visit)],
                        changed |-> TRUE, lrms_jobid |-> j,
                        ec2_used_instance_ids |-> @.ec2_used_instance_ids ] ]
       /\ ec2_call' = SubmitCall(j, order, visit, 0, FALSE)
  /\ UNCHANGED vms
  /\ UNCHANGED << driverVars, deVars, libVars >>

\* the visit of a started VM raises: submit_job raises, the job stays NEW
SubmitRaisesOnStartedVm(j) ==
  /\ jobs[j].state = NEW_
  /\ \E order \in Perms(DOMAIN vms), visit \in [ DOMAIN vms -> {"ok", "noslots", "fail", "unreachable"} ] :
       /\ \A id \in DOMAIN vms : visit[id] \in VisitResults(id)
       /\ FirstNotFull(order, visit) # 0
       /\ visit[order[FirstNotFull(order, visit)]] \in {"fail", "unreachable"}
       /\ resources' = Connected(order, visit)
       /\ ec2_call' = SubmitCall(j, order, visit, 0, TRUE)
  /\ UNCHANGED << vms, jobs >>
  /\ UNCHANGED << driverVars, deVars, libVars >>

\* the record of the job once _create_instance returned `vm`:
\* `job.ec2_instance_id = vm.id; job.changed = True`, before vm.state is looked at
WithInstance(job, id) ==
  [ job EXCEPT !.ec2_instance_id = id, !.changed = TRUE ]

\* no started VM has a free slot, run_instances raises: UnrecoverableError
CreateInstanceFails(j) ==
  /\ jobs[j].state = NEW_
  /\ Cardinality(DOMAIN vms) >= MaxVms
  /\ \E order \in Perms(DOMAIN vms), visit \in [ DOMAIN vms -> {"ok", "noslots", "fail", "unreachable"} ] :
       /\ \A id \in DOMAIN vms : visit[id] \in VisitResults(id)
       /\ FirstNotFull(order, visit) = 0
       /\ resources' = Connected(order, visit)
       /\ ec2_call' = SubmitCall(j, order, visit, 0, TRUE)
  /\ UNCHANGED << vms, jobs >>
  /\ UNCHANGED << driverVars, deVars, libVars >>

\* no started VM has a free slot: a new VM is started; it is running and
\* reachable and its sub-resource accepts the job
SubmitOnNewVm(j) ==
  /\ jobs[j].state = NEW_
  /\ Cardinality(DOMAIN vms) < MaxVms
  /\ \E order \in Perms(DOMAIN vms), visit \in [ DOMAIN vms -> {"ok", "noslots", "fail", "unreachable"} ] :
       /\ \A id \in DOMAIN vms : visit[id] \in VisitResults(id)
       /\ FirstNotFull(order, visit) = 0
       /\ LET id == Cardinality(DOMAIN vms) + 1 IN
            /\ vms' = (id :> "running") @@ vms
            /\ resources' = Connected(order, visit) \cup {id}
            /\ jobs' = [ jobs EXCEPT ![j] =
                           [ WithInstance(@, id) EXCEPT !.state = SUBMITTED,
                                                        !.lrms_jobid = j ] ]
            /\ ec2_call' = SubmitCall(j, order, visit, id, FALSE)
  /\ UNCHANGED << driverVars, deVars, libVars >>

\* no started VM has a free slot: a new VM is started, and submit_job raises:
\* the VM is pending (RecoverableError), in error or terminated
\* (UnrecoverableError), or running but not reachable yet (RecoverableError)
\* or its sub-resource raises
SubmitRaisesOnNewVm(j) ==
  /\ jobs[j].state = NEW_
  /\ Cardinality(DOMAIN vms) < MaxVms
  /\ \E order \in Perms(DOMAIN vms), visit \in [ DOMAIN vms -> {"ok", "noslots", "fail", "unreachable"} ] :
       /\ \A id \in DOMAIN vms : visit[id] \in VisitResults(id)
       /\ FirstNotFull(order, visit) = 0
       /\ LET id == Cardinality(DOMAIN vms) + 1 IN
            \E vm_state \in {"pending", "running", "error", "terminated"},
               connects \in BOOLEAN :
              /\ connects => vm_state = "running"
              /\ vms' = (id :> vm_state) @@ vms
              /\ resources' = Connected(order, visit)
                                \cup (IF connects THEN {id} ELSE {})
              /\ jobs' = [ jobs EXCEPT ![j] = WithInstance(@, id) ]
              /\ ec2_call' = SubmitCall(j, order, visit, id, TRUE)
  /\ UNCHANGED << driverVars, deVars, libVars >>

\* the cloud: a pending VM comes up
VmBoots(id) ==
  /\ id \in DOMAIN vms
  /\ vms[id] = "pending"
  /\ vms' = [ vms EXCEPT ![id] = "running" ]
  /\ ec2_call' = [ NoCall EXCEPT !.op = "cloud" ]
  /\ UNCHANGED << resources, jobs >>
  /\ UNCHANGED << driverVars, deVars, libVars >>

\* the cloud: a VM is terminated from outside
VmTerminated(id) ==
  /\ id \in DOMAIN vms
  /\ vms[id] \in {"pending", "running"}
  /\ vms' = [ vms EXCEPT ![id] = "terminated" ]
  /\ ec2_call' = [ NoCall EXCEPT !.op = "cloud" ]
  /\ UNCHANGED << resources, jobs >>
  /\ UNCHANGED << driverVars, deVars, libVars >>

\* the job run on a VM comes to its end
JobTerminates(j) ==
  /\ jobs[j].state = SUBMITTED
  /\ jobs' = [ jobs EXCEPT ![j].state = TERMINATED ]
  /\ ec2_call' = [ NoCall EXCEPT !.op = "cloud" ]
  /\ UNCHANGED << vms, resources >>
  /\ UNCHANGED << driverVars, deVars, libVars >>

\* resource.jobs once resource.free(app) and get_resource_status() are done:
\* the other jobs submitted to the VM and not freed yet
RemainingOn(id, j) ==
  { k \in DOMAIN jobs \ {j} :
      /\ jobs[k].ec2_instance_id = id
      /\ jobs[k].state \in { SUBMITTED, TERMINATED }
      /\ jobs[k].ec2_used_instance_ids = << >> }

\* free(app) is called once, on a TERMINATED job whose VM has a resource
Freeable(j) ==
  /\ jobs[j].state = TERMINATED
  /\ jobs[j].ec2_used_instance_ids = << >>
  /\ jobs[j].ec2_instance_id \in resources

FreeCall(j, raised) ==
  [ op |-> "free", job |-> j, visit |-> << >>, started |-> 0,
    raised |-> raised ]

\* free(app) while other jobs are left on the VM: the VM is kept and its id
\* is appended to app.ec2_used_instance_ids
FreeKeepsVm(j) ==
  /\ Freeable(j)
  /\ RemainingOn(jobs[j].ec2_instance_id, j) # {}
  /\ jobs' = [ jobs EXCEPT ![j].ec2_used_instance_ids =
                              Append(@, jobs[j].ec2_instance_id) ]
  /\ ec2_call' = FreeCall(j, FALSE)
  /\ UNCHANGED << vms, resources >>
  /\ UNCHANGED << driverVars, deVars, libVars >>

\* free(app) when no job is left on the VM: the VM is terminated, its
\* resource is dropped and `del app.ec2_instance_id` is run; the statement
\* that follows reads app.ec2_instance_id and raises AttributeError
FreeTerminatesVm(j) ==
  /\ Freeable(j)
  /\ RemainingOn(jobs[j].ec2_instance_id, j) = {}
  /\ vms' = [ vms EXCEPT ![jobs[j].ec2_instance_id] = "terminated" ]
  /\ resources' = resources \ { jobs[j].ec2_instance_id }
  /\ jobs' = [ jobs EXCEPT ![j].ec2_instance_id = 0 ]
  /\ ec2_call' = FreeCall(j, TRUE)
  /\ UNCHANGED << driverVars, deVars, libVars >>

NextEC2 ==
  \/ \E j \in 1..MaxJobs : SubmitOnStartedVm(j)
  \/ \E j \in 1..MaxJobs : SubmitRaisesOnStartedVm(j)
  \/ \E j \in 1..MaxJobs : CreateInstanceFails(j)
  \/ \E j \in 1..MaxJobs : SubmitOnNewVm(j)
  \/ \E j \in 1..MaxJobs : SubmitRaisesOnNewVm(j)
  \/ \E id \in 1..MaxVms : VmBoots(id)
  \/ \E id \in 1..MaxVms : VmTerminated(id)
  \/ \E j \in 1..MaxJobs : JobTerminates(j)
  \/ \E j \in 1..MaxJobs : FreeKeepsVm(j)
  \/ \E j \in 1..MaxJobs : FreeTerminatesVm(j)

SpecEC2 == InitEC2 /\ [][NextEC2]_vars

(***************************************************************************)
(* The differential evolution optimizer (optimizer/dif_evolution.py), and  *)
(* updatePopulation of its forerunner (branches/ibf/difEvoKenPrice.py).    *)
(***************************************************************************)
Coord == 0..MaxCoord

Vectors == [ 1..Dim -> Coord ]

\* drawPopulationMember: a point between lower_bds and upper_bds
BoxVectors == [ 1..Dim -> 0..BoxHi ]

Populations == [ 1..PopSize -> Vectors ]

ValueArrays == [ 1..PopSize -> 0..MaxVal ]

de_step_size == 1

RECURSIVE SumTo(_, _)
SumTo(x, d) == IF d = 0 THEN 0 ELSE x[d] + SumTo(x, d - 1)

\* the constraint functions c(x) tried: _default_nlc, one that rejects the
\* far corner of the space only, and one that rejects all but the origin
Filters == {"default", "corner", "origin"}

Nlc(f, x) ==
  CASE f = "default" -> [ i \in 1..PopSize |-> 1 ]
    [] f = "corner" -> << MaxCoord * Dim - SumTo(x, Dim) >>
    [] f = "origin" -> << 1 - SumTo(x, Dim) >>

\* sum(constr > 0) == len(constr)
Feasible(f, x) ==
  LET constr == Nlc(f, x)
  IN  Cardinality({ i \in DOMAIN constr : constr[i] > 0 }) = Len(constr)

\* pop[cSat, :] with cSat = checkConstraints(pop), kept whole by mistake
FeasibleOf_All(f, p) == p

\* pop[cSat, :] with cSat = checkConstraints(pop)
FeasibleOf(f, p) ==
  LET cSat(x) == Feasible(f, x)
  IN  SelectSeq(p, cSat)

\* popNew[:self.pop_size, :], the cut forgotten
Truncated_Not(p) == p

\* popNew[:self.pop_size, :]
Truncated(p) == SubSeq(p, 1, PopSize)

\* enforceConstrResample for one member: a feasible member stays; otherwise
\* it is redrawn until a draw is feasible or pop_size * 100 draws are used up,
\* and then the last draw stays, whatever it is
Resampled(f, ele) ==
  IF Feasible(f, ele)
    THEN { [x |-> ele, out_of_draws |-> FALSE] }
    ELSE { [x |-> y, out_of_draws |-> FALSE] :
             y \in { z \in BoxVectors : Feasible(f, z) } }
         \cup { [x |-> y, out_of_draws |-> TRUE] : y \in BoxVectors }

\* a1[rt] with rt = (rot + shift) % pop_size
Rotated(a, shift) ==
  [ i \in 1..PopSize |-> a[((i - 1 + shift) % PopSize) + 1] ]

\* the index arrays <<a1, a2, a3>> the random draws of modify can give:
\* a1 a permutation, a2 and a3 rotations by ind[0] and ind[1], two different
\* entries of a permutation of 1..4
Shuffles ==
  { << a1, Rotated(a1, ind[1]), Rotated(Rotated(a1, ind[1]), ind[2]) >> :
      a1 \in Perms(1..PopSize),
      ind \in { i \in [ 1..2 -> 1..4 ] : i[1] # i[2] } }

\* the crossover masks mui the random draws of modify can give
Masks == [ 1..PopSize -> [ 1..Dim -> BOOLEAN ] ]

\* one coordinate of the perturbed vector of member k
Perturbed(popold, bm, strategy, a, k, d) ==
  LET pm1 == popold[a[1][k]][d]
      pm2 == popold[a[2][k]][d]
      pm3 == popold[a[3][k]][d]
  IN  IF strategy = 1
        THEN pm3 + de_step_size * (pm1 - pm2)
        ELSE popold[k][d] + de_step_size * (bm[d] - popold[k][d])
               + de_step_size * (pm1 - pm2)

\* modify(pop): every offspring population the random draws can give, for
\* de_strategy 1 (DE/rand/1) and 2 (DE/local-to-best/1)
Modify(popold, bm, strategy) ==
  { [ k \in 1..PopSize |-> [ d \in 1..Dim |->
        IF mui[k][d] THEN Perturbed(popold, bm, strategy, a, k, d)
                     ELSE popold[k][d] ] ] :
      a \in Shuffles, mui \in Masks }

\* the offspring populations the model follows: coordinates within Coord
ModifyInRange(popold, bm, strategy) ==
  { u \in Modify(popold, bm, strategy) :
      \A k \in 1..PopSize : \A d \in 1..Dim : u[k][d] \in Coord }

\* np.argmin: the first index of the smallest value
ArgMin(vals) ==
  CHOOSE i \in DOMAIN vals :
    /\ \A j \in DOMAIN vals : vals[i] <= vals[j]
    /\ \A j \in DOMAIN vals : j < i => vals[j] > vals[i]

Abs(n) == IF n < 0 THEN -n ELSE n

\* populationConverged(pop)
populationConverged(p, xcrit) ==
  \A k \in DOMAIN p : \A d \in 1..Dim : Abs(p[k][d] - p[1][d]) <= xcrit

\* has_converged, the test of the iteration limit left out
has_converged_NoLimit(it, bestval, p, imax, ycrit, xcrit) ==
  \/ bestval < ycrit
  \/ populationConverged(p, xcrit)

\* has_converged, the iteration limit met one iteration early
has_converged_AtLimit(it, bestval, p, imax, ycrit, xcrit) ==
  \/ it >= imax
  \/ bestval < ycrit
  \/ populationConverged(p, xcrit)

\* has_converged()
has_converged(it, bestval, p, imax, ycrit, xcrit) ==
  \/ it > imax
  \/ bestval < ycrit
  \/ populationConverged(p, xcrit)

\* `if newVals[k] < self.S_vals[k]`, ties given to the offspring
Replaces_Ties(newVal, oldVal) == newVal <= oldVal

\* `if newVals[k] < self.S_vals[k]`: the offspring takes the parent's place
Replaces(newVal, oldVal) == newVal < oldVal

\* `if newVals[best_index] < self.S_bestval`, the test left out
Improves_Always(newVal, bestval) == TRUE

\* `if newVals[best_index] < self.S_bestval`, the test never passing
Improves_Never(newVal, bestval) == FALSE

\* `if newVals[best_index] < self.S_bestval`
Improves(newVal, bestval) == newVal < bestval

\* `self.best_iter = self.best.copy()`, the old best_iter kept
Frozen_Stale(b, bi) == bi

\* `self.best_iter = self.best.copy()`
Frozen(b, bi) == b

\* DifferentialEvolution.updatePopulation(newPop, newVals)
updatePopulation(it, p, vals, bestval, b, bi, newPop, newVals) ==
  IF it = 0
    THEN LET I_best_index == ArgMin(newVals)
         IN  [ pop |-> newPop,
               S_vals |-> newVals,
               S_bestval |-> newVals[I_best_index],
               best |-> newPop[I_best_index],
               best_iter |-> newPop[I_best_index] ]
    ELSE LET best_index == ArgMin(newVals)
             better == Improves(newVals[best_index], bestval)
             b2 == IF better THEN newPop[best_index] ELSE b
         IN  [ pop |-> [ k \in 1..PopSize |->
                         IF Replaces(newVals[k], vals[k]) THEN newPop[k] ELSE p[k] ],
               S_vals |-> [ k \in 1..PopSize |->
                            IF Replaces(newVals[k], vals[k]) THEN newVals[k] ELSE vals[k] ],
               S_bestval |-> IF better THEN newVals[best_index] ELSE bestval,
               best |-> b2,
               best_iter |-> Frozen(b2, bi) ]

\* deKenPrice.updatePopulation, I_iter == 0: the loop that looks for the best
\* member; `newVals[k] < self.S_bestval == 1` is a chained comparison
RECURSIVE KenPriceFirstBest(_, _, _, _)
KenPriceFirstBest(newVals, k, I_best_index, bestval) ==
  IF k > PopSize
    THEN [ I_best_index |-> I_best_index, S_bestval |-> bestval ]
    ELSE LET bv == IF k = 1 THEN newVals[1] ELSE bestval
             ix == IF k = 1 THEN 1 ELSE I_best_index
             hit == newVals[k] < bv /\ bv = 1
         IN  KenPriceFirstBest(newVals, k + 1, IF hit THEN k ELSE ix,
                               IF hit THEN newVals[k] ELSE bv)

\* deKenPrice.updatePopulation, I_iter > 0: the loop over the members
RECURSIVE KenPriceSelect(_, _, _, _, _, _, _)
KenPriceSelect(k, p, vals, bestval, b, newPop, newVals) ==
  IF k > PopSize
    THEN [ pop |-> p, S_vals |-> vals, S_bestval |-> bestval,
           best |-> b, best_iter |-> b ]
    ELSE IF newVals[k] < vals[k]
           THEN KenPriceSelect(k + 1,
                               [ p EXCEPT ![k] = newPop[k] ],
                               [ vals EXCEPT ![k] = newVals[k] ],
                               IF newVals[k] < bestval THEN newVals[k] ELSE bestval,
                               IF newVals[k] < bestval THEN newPop[k] ELSE b,
                               newPop, newVals)
           ELSE KenPriceSelect(k + 1, p, vals, bestval, b, newPop, newVals)

\* deKenPrice.updatePopulation(newPop, newVals)
KenPriceUpdatePopulation(it, p, vals, bestval, b, bi, newPop, newVals) ==
  IF it = 0
    THEN LET found == KenPriceFirstBest(newVals, 1, 1, bestval)
         IN  [ pop |-> newPop,
               S_vals |-> newVals,
               S_bestval |-> found.S_bestval,
               best |-> newPop[found.I_best_index],
               best_iter |-> newPop[found.I_best_index] ]
    ELSE KenPriceSelect(1, p, vals, bestval, b, newPop, newVals)

\* the optimizers followed: the current one with each constraint function
\* and with each strategy, and its forerunner
Optimizers ==
  { <<"gc3libs", f, 1>> : f \in Filters }
    \cup { <<"gc3libs", "default", 2>>, <<"ibf", "default", 1>> }

\* <<itermax, y_conv_crit, x_conv_crit>>: an early iteration limit, a value
\* to reach, and a tolerance on x wider than exact equality
Criteria == { <<1, 0, 0>>, <<MaxIter, 1, 0>>, <<MaxIter, 0, 1>> }

InitDE ==
  /\ \E o \in Optimizers, c \in Criteria :
       DEConstructed(o[1], o[2], o[3], c[1], c[2], c[3])
  /\ LibNotUsed
  /\ vms = << >>
  /\ resources = {}
  /\ jobs = << >>
  /\ ec2_call = NoCall
  /\ tasks = << >>
  /\ store = << >>
  /\ index = << >>
  /\ pc = "de"
  /\ cursor = 1
  /\ in_try = FALSE
  /\ exc = "none"
  /\ rc = 0
  /\ wait = 0
  /\ max_running = 1
  /\ lrms = "none"
  /\ terminating = {}
  /\ polled = {}
  /\ attempted = {}
  /\ errors = {}
  /\ still_in_flight = 0
  /\ were_new = 0
  /\ fetches = << >>
  /\ reports = << >>

deParams == << variant, nlc, de_strategy, itermax, y_conv_crit, x_conv_crit >>

\* iterate() with cur_iter becoming 0: drawInitialSample, then ui = pop.copy()
DrawInitialSample ==
  /\ de_pc = "idle"
  /\ cur_iter = -1
  /\ cur_iter' = 0
  /\ \E drawn \in [ 1..PopSize -> BoxVectors ] :
       \E kept \in [ 1..PopSize -> UNION { Resampled(nlc, drawn[k]) : k \in 1..PopSize } ] :
         /\ \A k \in 1..PopSize : kept[k] \in Resampled(nlc, drawn[k])
         /\ pop' = [ k \in 1..PopSize |-> kept[k].x ]
         /\ exhausted' = { k \in 1..PopSize : kept[k].out_of_draws }
  /\ ui' = pop'
  /\ de_pc' = "evaluate"
  /\ UNCHANGED << deParams, S_vals, S_bestval, best, best_iter, S_tempvals,
                  popNew, converged >>
  /\ UNCHANGED << driverVars, ec2Vars, libVars >>

\* enforceConstrReEvolve once popNew holds `grown`: another batch while it is
\* short, the first pop_size members once it is long enough
ReEvolveOrReturn(grown) ==
  IF Len(grown) >= PopSize
    THEN /\ ui' = Truncated(grown)
         /\ popNew' = << >>
         /\ de_pc' = "evaluate"
    ELSE /\ popNew' = grown
         /\ de_pc' = "reevolve"
         /\ UNCHANGED ui

\* iterate() with cur_iter > 0, up to the first test of the while loop of
\* enforceConstrReEvolve
Evolve ==
  /\ de_pc = "idle"
  /\ cur_iter >= 0
  /\ cur_iter < MaxIter
  /\ cur_iter' = cur_iter + 1
  /\ \E u \in ModifyInRange(pop, best_iter, de_strategy) :
       ReEvolveOrReturn(FeasibleOf(nlc, u))
  /\ UNCHANGED << deParams, pop, S_vals, S_bestval, best, best_iter, S_tempvals,
                  converged, exhausted >>
  /\ UNCHANGED << driverVars, ec2Vars, libVars >>

\* one pass of the while loop of enforceConstrReEvolve
ReEvolve ==
  /\ de_pc = "reevolve"
  /\ \E reEvolvePop \in ModifyInRange(pop, best_iter, de_strategy) :
       ReEvolveOrReturn(popNew \o FeasibleOf(nlc, reEvolvePop))
  /\ UNCHANGED << deParams, cur_iter, pop, S_vals, S_bestval, best, best_iter,
                  S_tempvals, converged, exhausted >>
  /\ UNCHANGED << driverVars, ec2Vars, libVars >>

\* the rest of iterate(): the target gives the values of ui, updatePopulation
\* takes them in, and has_converged() is returned (the forerunner returns
\* False from its first iteration)
Update ==
  /\ de_pc = "evaluate"
  /\ \E newVals \in ValueArrays :
       LET new == IF variant = "gc3libs"
                    THEN updatePopulation(cur_iter, pop, S_vals, S_bestval,
                                          best, best_iter, ui, newVals)
                    ELSE KenPriceUpdatePopulation(cur_iter, pop, S_vals, S_bestval,
                                                  best, best_iter, ui, newVals)
       IN  /\ S_tempvals' = newVals
           /\ pop' = new.pop
           /\ S_vals' = new.S_vals
           /\ S_bestval' = new.S_bestval
           /\ best' = new.best
           /\ best_iter' = new.best_iter
           /\ converged' =
                IF variant = "ibf" /\ cur_iter = 0
                  THEN FALSE
                  ELSE has_converged(cur_iter, new.S_bestval, new.pop,
                                     itermax, y_conv_crit, x_conv_crit)
  /\ de_pc' = "idle"
  /\ UNCHANGED << deParams, cur_iter, ui, popNew, exhausted >>
  /\ UNCHANGED << driverVars, ec2Vars, libVars >>

\* has_converged() called again between two iterations
HasConverged ==
  /\ de_pc = "idle"
  /\ cur_iter >= 0
  /\ converged' = has_converged(cur_iter, S_bestval, pop,
                                itermax, y_conv_crit, x_conv_crit)
  /\ UNCHANGED << de_pc, deParams, cur_iter, pop, S_vals, S_bestval, best,
                  best_iter, ui, S_tempvals, popNew, exhausted >>
  /\ UNCHANGED << driverVars, ec2Vars, libVars >>

NextDE ==
  \/ DrawInitialSample
  \/ Evolve
  \/ ReEvolve
  \/ Update
  \/ HasConverged

SpecDE == InitDE /\ [][NextDE]_vars

(***************************************************************************)
(* The SQL store used on its own: save, remove, and a restart of the       *)
(* process that holds the objects (sql_persistence.py).                    *)
(***************************************************************************)
SqlObjNames == {"a", "b", "c"}

\* no session driver, EC2 backend or optimizer takes part
DriverNotUsed ==
  /\ tasks = << >>
  /\ store = << >>
  /\ index = << >>
  /\ pc = "lib"
  /\ cursor = 1
  /\ in_try = FALSE
  /\ exc = "none"
  /\ rc = 0
  /\ wait = 0
  /\ max_running = 1
  /\ lrms = "none"
  /\ terminating = {}
  /\ polled = {}
  /\ attempted = {}
  /\ errors = {}
  /\ still_in_flight = 0
  /\ were_new = 0
  /\ fetches = << >>
  /\ reports = << >>

EC2NotUsed ==
  /\ vms = << >>
  /\ resources = {}
  /\ jobs = << >>
  /\ ec2_call = NoCall

InitSQL ==
  /\ db = << >>
  /\ objs = [ o \in SqlObjNames |-> NewTask(o) ]
  /\ assigned = << >>
  /\ returned = 0
  /\ sql_op = << "none", "none" >>
  /\ PNNotUsed
  /\ PXNotUsed
  /\ DriverNotUsed
  /\ EC2NotUsed
  /\ DENotUsed
  /\ ExtNotUsed

\* SQL.save(obj); the first save of an object draws an id from the factory
SqlSave(o) ==
  /\ objs[o].persistent_id = 0 => Len(assigned) < MaxIds
  /\ db' = Save(db, objs[o])
  /\ objs' = [ objs EXCEPT ![o] = SavedObj(db, objs[o]) ]
  /\ assigned' = IF objs[o].persistent_id = 0
                   THEN Append(assigned, sql_next_id(db))
                   ELSE assigned
  /\ returned' = SavedObj(db, objs[o]).persistent_id
  /\ sql_op' = << IF objs[o].persistent_id = 0 THEN "save" ELSE "resave", o >>
  /\ UNCHANGED << driverVars, ec2Vars, deVars, pnVars, pxVars, extVars >>

\* SQL.remove(id_): delete from jobs where id = id_
SqlRemove(id_) ==
  /\ id_ \in DOMAIN db
  /\ db' = [ k \in DOMAIN db \ {id_} |-> db[k] ]
  /\ sql_op' = << "remove", db[id_].jobname >>
  /\ UNCHANGED << objs, assigned, returned >>
  /\ UNCHANGED << driverVars, ec2Vars, deVars, pnVars, pxVars, extVars >>

\* the program changes an object between two saves
SqlChange(o) ==
  /\ objs[o].state = NEW_
  /\ objs' = [ objs EXCEPT ![o].state = RUNNING ]
  /\ sql_op' = << "change", o >>
  /\ UNCHANGED << db, assigned, returned >>
  /\ UNCHANGED << driverVars, ec2Vars, deVars, pnVars, pxVars, extVars >>

\* SQL.load(id_) of the row that holds the pickled object `o`
Loaded(st, o) ==
  st[CHOOSE k \in DOMAIN st : st[k].jobname = o].data

\* the process ends and a new one starts on the same database: the objects
\* it finds there are loaded, the others are made anew
SqlRestart ==
  /\ sql_op[1] # "restart"
  /\ objs' = [ o \in SqlObjNames |->
                 IF \E k \in DOMAIN db : db[k].jobname = o
                   THEN Loaded(db, o) ELSE NewTask(o) ]
  /\ sql_op' = << "restart", "none" >>
  /\ UNCHANGED << db, assigned, returned >>
  /\ UNCHANGED << driverVars, ec2Vars, deVars, pnVars, pxVars, extVars >>

NextSQL ==
  \/ \E o \in SqlObjNames : SqlSave(o)
  \/ \E id_ \in DOMAIN db : SqlRemove(id_)
  \/ \E o \in SqlObjNames : SqlChange(o)
  \/ SqlRestart

SpecSQL == InitSQL /\ [][NextSQL]_vars

(***************************************************************************)
(* utils.progressive_number, called from several processes at once.        *)
(***************************************************************************)
HexBase == 16

\* "%x" % n, as a sequence of digits
RECURSIVE HexDigits(_)
HexDigits(n) ==
  IF n < HexBase THEN << n >>
  ELSE Append(HexDigits(n \div HexBase), n % HexBase)

\* "%0Wx" % n: zero-padded to IdDigits, longer when n needs more digits
RECURSIVE ZeroPadded(_)
ZeroPadded(ds) ==
  IF Len(ds) >= IdDigits THEN ds ELSE ZeroPadded(<< 0 >> \o ds)

FormatId(n) == ZeroPadded(HexDigits(n))

\* id_file.read(IdDigits): at most IdDigits leading characters
ReadId(text) == SubSeq(text, 1, IF Len(text) < IdDigits THEN Len(text) ELSE IdDigits)

\* int(s or "0", 16)
RECURSIVE HexValue(_)
HexValue(ds) ==
  IF ds = << >> THEN 0
  ELSE HexValue(SubSeq(ds, 1, Len(ds) - 1)) * HexBase + ds[Len(ds)]

\* what a call that read `ds` writes back: id + 1, or id + qty
Written(ds, qty) ==
  FormatId(HexValue(ds) + (IF qty = 0 THEN 1 ELSE qty))

\* what a call that read `ds` returns: id + 1, or [id + 1 .. id + qty]
Numbers(ds, qty) ==
  { HexValue(ds) + n : n \in 1..(IF qty = 0 THEN 1 ELSE qty) }

\* the numbers n consecutive single calls return, the first reading `text`
RECURSIVE SingleCalls(_, _)
SingleCalls(text, n) ==
  IF n = 0 THEN {}
  ELSE Numbers(ReadId(text), 0)
         \cup SingleCalls(Written(ReadId(text), 0), n - 1)

Procs == 1..MaxProcs

\* the counter file a run starts from: none yet, or one left by earlier runs
InitPN ==
  /\ id_file \in { [ exists |-> FALSE, text |-> << >> ],
                   [ exists |-> TRUE, text |-> FormatId(HexBase - 2) ] }
  /\ lock = 0
  /\ pn_pc = [ p \in Procs |-> "idle" ]
  /\ pn_qty = [ p \in Procs |-> 0 ]
  /\ pn_read = [ p \in Procs |-> << >> ]
  /\ pn_floor = [ p \in Procs |-> 0 ]
  /\ pn_out = {}
  /\ pn_calls = 0
  /\ SQLNotUsed
  /\ PXNotUsed
  /\ DriverNotUsed
  /\ EC2NotUsed
  /\ DENotUsed
  /\ ExtNotUsed

\* progressive_number(qty) is entered
PnCall(p, qty) ==
  /\ pn_pc[p] = "idle"
  /\ pn_calls < MaxCalls
  /\ pn_calls' = pn_calls + 1
  /\ pn_qty' = [ pn_qty EXCEPT ![p] = qty ]
  /\ pn_floor' = [ pn_floor EXCEPT ![p] = MaxOf(pn_out \cup {0}) ]
  /\ pn_pc' = [ pn_pc EXCEPT ![p] = "exists" ]
  /\ UNCHANGED << id_file, lock, pn_read, pn_out >>
  /\ UNCHANGED << driverVars, ec2Vars, deVars, sqlVars, pxVars, extVars >>

\* if not os.path.exists(id_filename): open(id_filename, "a").close()
PnCreate(p) ==
  /\ pn_pc[p] = "exists"
  /\ id_file' = [ id_file EXCEPT !.exists = TRUE ]
  /\ pn_pc' = [ pn_pc EXCEPT ![p] = "acquire" ]
  /\ UNCHANGED << lock, pn_qty, pn_read, pn_floor, pn_out, pn_calls >>
  /\ UNCHANGED << driverVars, ec2Vars, deVars, sqlVars, pxVars, extVars >>

\* lock.acquire(timeout=30) succeeds
PnAcquire(p) ==
  /\ pn_pc[p] = "acquire"
  /\ lock = 0
  /\ lock' = p
  /\ pn_pc' = [ pn_pc EXCEPT ![p] = "read" ]
  /\ UNCHANGED << id_file, pn_qty, pn_read, pn_floor, pn_out, pn_calls >>
  /\ UNCHANGED << driverVars, ec2Vars, deVars, sqlVars, pxVars, extVars >>

\* lock.acquire(timeout=30) raises LockTimeout: the call returns no number
PnLockTimeout(p) ==
  /\ pn_pc[p] = "acquire"
  /\ lock # 0
  /\ pn_pc' = [ pn_pc EXCEPT ![p] = "idle" ]
  /\ UNCHANGED << id_file, lock, pn_qty, pn_read, pn_floor, pn_out, pn_calls >>
  /\ UNCHANGED << driverVars, ec2Vars, deVars, sqlVars, pxVars, extVars >>

\* id = int(id_file.read(8) or "0", 16)
PnRead(p) ==
  /\ pn_pc[p] = "read"
  /\ pn_read' = [ pn_read EXCEPT ![p] = ReadId(id_file.text) ]
  /\ pn_pc' = [ pn_pc EXCEPT ![p] = "write" ]
  /\ UNCHANGED << id_file, lock, pn_qty, pn_floor, pn_out, pn_calls >>
  /\ UNCHANGED << driverVars, ec2Vars, deVars, sqlVars, pxVars, extVars >>

\* id_file.seek(0); id_file.write("%08x ..." % (id + 1 or id + qty)); close
PnWrite(p) ==
  /\ pn_pc[p] = "write"
  /\ id_file' = [ id_file EXCEPT !.text = Written(pn_read[p], pn_qty[p]) ]
  /\ pn_pc' = [ pn_pc EXCEPT ![p] = "release" ]
  /\ UNCHANGED << lock, pn_qty, pn_read, pn_floor, pn_out, pn_calls >>
  /\ UNCHANGED << driverVars, ec2Vars, deVars, sqlVars, pxVars, extVars >>

\* lock.release()
PnRelease(p) ==
  /\ pn_pc[p] = "release"
  /\ lock' = 0
  /\ pn_pc' = [ pn_pc EXCEPT ![p] = "return" ]
  /\ UNCHANGED << id_file, pn_qty, pn_read, pn_floor, pn_out, pn_calls >>
  /\ UNCHANGED << driverVars, ec2Vars, deVars, sqlVars, pxVars, extVars >>

\* return id + 1, or [ (id + n) for n in range(1, qty + 1) ]
PnReturn(p) ==
  /\ pn_pc[p] = "return"
  /\ pn_out' = pn_out \cup Numbers(pn_read[p], pn_qty[p])
  /\ pn_pc' = [ pn_pc EXCEPT ![p] = "idle" ]
  /\ UNCHANGED << id_file, lock, pn_qty, pn_read, pn_floor, pn_calls >>
  /\ UNCHANGED << driverVars, ec2Vars, deVars, sqlVars, pxVars, extVars >>

NextPN ==
  \/ \E p \in Procs, qty \in 0..MaxQty : PnCall(p, qty)
  \/ \E p \in Procs : PnCreate(p)
  \/ \E p \in Procs : PnAcquire(p)
  \/ \E p \in Procs : PnLockTimeout(p)
  \/ \E p \in Procs : PnRead(p)
  \/ \E p \in Procs : PnWrite(p)
  \/ \E p \in Procs : PnRelease(p)
  \/ \E p \in Procs : PnReturn(p)

SpecPN == InitPN /\ [][NextPN]_vars

(***************************************************************************)
(* persistence/proxy.py: Proxy objects in a MemoryPool whose storage is    *)
(* the SQL store.  A state of the pool is a record [px, db, raised]: the   *)
(* proxies, the jobs table, and whether a save raised in the operation.    *)
(*   obj            the object `_obj` refers to, named by the proxy it was *)
(*                  made for; 0 stands for None                            *)
(*   persistent_id  the `persistent_id` attribute of that object, 0 when   *)
(*                  it has none                                            *)
(***************************************************************************)
\* <<maxobjects, minobjects>> the pool is set up with
PoolConfigs ==
  { <<0, -1>>, <<1, -1>>, <<2, -1>>, <<1, 2>> }

\* what storage.save(obj) can do: succeed, raise before an id is drawn, or
\* raise in _save_or_replace, after save() has set obj.persistent_id
SaveOutcomes == { "ok", "early", "late" }

\* MemoryPool.minobjects()
MinObjects_Max(maxo, mino) ==
  IF mino = -1 THEN maxo ELSE mino

MinObjects(maxo, mino) ==
  IF mino = -1 THEN maxo \div 2 ELSE mino

\* [i for i in self._proxies if not i.proxy_saved()]
Living(pxs) == { p \in DOMAIN pxs : ~ pxs[p].saved }

\* Proxy.__init__ (BaseProxy.__init__ included); `_obj_id` is not touched
InitProxy(st, p) ==
  [ st EXCEPT !.px =
      (p :> [ obj |-> p,
              saved |-> FALSE,
              last_access |-> -1,
              obj_id |-> IF p \in DOMAIN st.px THEN st.px[p].obj_id ELSE 0,
              persistent_id |->
                IF p \notin DOMAIN st.px THEN 0
                ELSE IF st.px[p].obj # 0 THEN st.px[p].persistent_id
                ELSE st.px[p].obj_id ]) @@ st.px ]

\* Proxy.proxy_forget, with storage.save(obj) ending as `out`
ProxyForget(st, p, sto, out) ==
  LET r == st.px[p]
      id_ == IF r.persistent_id # 0 THEN r.persistent_id
             ELSE sql_next_id(st.db)
  IN  IF r.obj = 0 THEN st
      ELSE IF ~ sto THEN st
      ELSE IF out = "ok"
        THEN [ px |-> [ st.px EXCEPT ![p].obj = 0, ![p].obj_id = id_,
                                     ![p].saved = TRUE,
                                     ![p].persistent_id = 0 ],
               db |-> (id_ :> r.obj) @@ st.db,
               raised |-> st.raised ]
      ELSE IF out = "late"
        THEN [ st EXCEPT !.px[p].persistent_id = id_, !.raised = TRUE ]
      ELSE [ st EXCEPT !.raised = TRUE ]

\* MemoryPool.last_accessed(obj1, obj2), the default MemoryPool.cmp
Sign(a, b) == IF a < b THEN -1 ELSE IF a > b THEN 1 ELSE 0

last_accessed(obj1, obj2) ==
  IF obj1.saved # obj2.saved
    THEN (IF obj2.saved THEN 1 ELSE -1)
    ELSE Sign(obj1.last_access, obj2.last_access)

\* the orders in which refresh() can pop the proxies off the sorted list:
\* from its end, so no proxy is popped before one that sorts after it
PopOrders(pxs) ==
  { o \in Perms(DOMAIN pxs) :
      \A i, j \in DOMAIN o : i < j => last_accessed(pxs[o[i]], pxs[o[j]]) >= 0 }

\* the while loop of refresh(): `living` counts the pops, not the saves
RECURSIVE Pops(_, _, _, _, _, _)
Pops(st, order, i, living, floor, cfg) ==
  IF living > floor /\ i <= Len(order)
    THEN Pops(ProxyForget(st, order[i], cfg.sto, cfg.outs[order[i]]),
              order, i + 1, living - 1, floor, cfg)
    ELSE st

\* MemoryPool.refresh; keep() is True for every proxy
Refresh(st, maxo, mino, order, cfg) ==
  IF maxo # 0
    THEN Pops(st, order, 1, Cardinality(Living(st.px)),
              MinObjects(maxo, mino), cfg)
    ELSE st

RefreshOutcomes(st, sto, maxo, mino) ==
  { Refresh(st, maxo, mino, o, [ sto |-> sto, outs |-> outs ]) :
      o \in PopOrders(st.px), outs \in [ DOMAIN st.px -> SaveOutcomes ] }

\* a slip of add(): the pool is never refreshed
AddOutcomes_NoRefresh(st, sto, maxo, mino) ==
  { st }

\* MemoryPool.add(obj), for a proxy already put into self._proxies
AddOutcomes(st, sto, maxo, mino) ==
  IF maxo # 0 /\ Cardinality(Living(st.px)) > maxo
    THEN RefreshOutcomes(st, sto, maxo, mino)
    ELSE { st }

\* Proxy(obj): ACProxy.__new__ runs __init__, and so does the call of the
\* class once __new__ has returned; each __init__ ends in manager.add(self)
ConstructOutcomes(st, p, sto, maxo, mino) ==
  UNION { AddOutcomes(InitProxy(s1, p), sto, maxo, mino) :
            s1 \in AddOutcomes(InitProxy(st, p), sto, maxo, mino) }

PoolState == [ px |-> px, db |-> pool_db, raised |-> FALSE ]

InitPool ==
  /\ px = << >>
  /\ pool_db = << >>
  /\ storage = FALSE
  /\ \E c \in PoolConfigs : maxobjects = c[1] /\ minobjects = c[2]
  /\ clock = 0
  /\ px_op = [ op |-> "none", p |-> 0, result |-> 0, error |-> "none",
               raised |-> FALSE ]
  /\ SQLNotUsed
  /\ PNNotUsed
  /\ DriverNotUsed
  /\ EC2NotUsed
  /\ DENotUsed
  /\ ExtNotUsed

\* Proxy(Task(...)) with the module's memory manager
ProxyNew ==
  /\ Cardinality(DOMAIN px) < MaxProxies
  /\ LET p == Cardinality(DOMAIN px) + 1 IN
       \E st \in ConstructOutcomes(PoolState, p, storage, maxobjects, minobjects) :
         /\ px' = st.px
         /\ pool_db' = st.db
         /\ px_op' = [ op |-> "new", p |-> 0, result |-> 0, error |-> "none",
                       raised |-> st.raised ]
  /\ UNCHANGED << storage, maxobjects, minobjects, clock >>
  /\ UNCHANGED << driverVars, ec2Vars, deVars, sqlVars, pnVars, extVars >>

\* mempool.add(proxy) for a proxy that is in the pool
PoolAdd(p) ==
  /\ p \in DOMAIN px
  /\ \E st \in AddOutcomes(PoolState, storage, maxobjects, minobjects) :
       /\ px' = st.px
       /\ pool_db' = st.db
       /\ px_op' = [ op |-> "add", p |-> 0, result |-> 0, error |-> "none",
                     raised |-> st.raised ]
  /\ UNCHANGED << storage, maxobjects, minobjects, clock >>
  /\ UNCHANGED << driverVars, ec2Vars, deVars, sqlVars, pnVars, extVars >>

\* mempool.refresh()
PoolRefresh ==
  /\ \E st \in RefreshOutcomes(PoolState, storage, maxobjects, minobjects) :
       /\ px' = st.px
       /\ pool_db' = st.db
       /\ px_op' = [ op |-> "refresh", p |-> 0, result |-> 0, error |-> "none",
                     raised |-> st.raised ]
  /\ UNCHANGED << storage, maxobjects, minobjects, clock >>
  /\ UNCHANGED << driverVars, ec2Vars, deVars, sqlVars, pnVars, extVars >>

\* proxy.proxy_forget()
PxForget(p) ==
  /\ p \in DOMAIN px
  /\ \E out \in SaveOutcomes :
       LET st == ProxyForget(PoolState, p, storage, out) IN
         /\ px' = st.px
         /\ pool_db' = st.db
         /\ px_op' = [ op |-> "forget", p |-> 0, result |-> 0, error |-> "none",
                       raised |-> st.raised ]
  /\ UNCHANGED << storage, maxobjects, minobjects, clock >>
  /\ UNCHANGED << driverVars, ec2Vars, deVars, sqlVars, pnVars, extVars >>

\* Proxy.proxy_load for a proxy whose _obj is None: the object is loaded and
\* installed, then the log.debug line names `p_id`, which proxy_load never
\* binds
ProxyLoad(pxs, rows, p) ==
  [ pxs EXCEPT ![p].obj = rows[pxs[p].obj_id], ![p].saved = FALSE,
               ![p].persistent_id = pxs[p].obj_id ]

\* proxy.jobname: Proxy.__getattribute__ of a name that is not reserved
PxRead(p) ==
  /\ p \in DOMAIN px
  /\ IF px[p].obj # 0
       THEN \E t \in { clock, Smaller(clock + 1, MaxClock) } :
              /\ clock' = t
              /\ px' = [ px EXCEPT ![p].last_access = t ]
              /\ px_op' = [ op |-> "read", p |-> p, result |-> px[p].obj,
                            error |-> "none", raised |-> FALSE ]
       ELSE IF storage
         THEN /\ px' = ProxyLoad(px, pool_db, p)
              /\ px_op' = [ op |-> "read", p |-> p, result |-> 0,
                            error |-> "NameError", raised |-> FALSE ]
              /\ clock' = clock
         ELSE /\ px_op' = [ op |-> "read", p |-> p, result |-> 0,
                            error |-> "AssertionError", raised |-> FALSE ]
              /\ UNCHANGED << px, clock >>
  /\ UNCHANGED << pool_db, storage, maxobjects, minobjects >>
  /\ UNCHANGED << driverVars, ec2Vars, deVars, sqlVars, pnVars, extVars >>

\* mempool.set_storage(store), or mempool.set_storage(None)
PoolSetStorage ==
  /\ storage' = ~ storage
  /\ px_op' = [ op |-> "set_storage", p |-> 0, result |-> 0, error |-> "none",
                raised |-> FALSE ]
  /\ UNCHANGED << px, pool_db, maxobjects, minobjects, clock >>
  /\ UNCHANGED << driverVars, ec2Vars, deVars, sqlVars, pnVars, extVars >>

NextPool ==
  \/ ProxyNew
  \/ \E p \in DOMAIN px : PoolAdd(p)
  \/ PoolRefresh
  \/ \E p \in DOMAIN px : PxForget(p)
  \/ \E p \in DOMAIN px : PxRead(p)
  \/ PoolSetStorage

SpecPool == InitPool /\ [][NextPool]_vars

(***************************************************************************)
(* Claims.                                                                 *)
(***************************************************************************)
\* a cycle of the engine is over: progress() has returned
CycleOver == pc = "stats"

\* C1: after any number of progress() cycles the number of tasks in
\* SUBMITTED or RUNNING state never exceeds max_in_flight.
C1_CapNeverExceeded ==
  pc \in {"stats", "returned", "sleep"} => InFlight(tasks) <= max_running

Rank(state) ==
  CASE state = NEW_ -> 1
    [] state = SUBMITTED -> 2
    [] state = RUNNING -> 3
    [] state = TERMINATING -> 4
    [] state = TERMINATED -> 5
    [] OTHER -> 0

\* C2: polling never moves a task backward along NEW, SUBMITTED, RUNNING,
\* TERMINATING, TERMINATED, whatever the backend reports.
C2_PollNeverMovesBackward ==
  [][ pc = "poll" =>
        \A i \in DOMAIN tasks :
          Rank(tasks[i].state) # 0 /\ Rank(tasks'[i].state) # 0
            => Rank(tasks'[i].state) >= Rank(tasks[i].state) ]_vars

\* C3: when no submission fails, at the end of a cycle the number of
\* in-flight tasks is min(max_in_flight, tasks still in flight after the
\* polls + tasks that were NEW).
C3_FreedSlotsFilled ==
  CycleOver /\ errors \cap attempted = {}
    => InFlight(tasks) = Smaller(max_running, still_in_flight + were_new)

\* C4: fetch_output is called once per run of a task, when the task has
\* become TERMINATING, and never again; a task whose polls report PEND, RUN,
\* DONE is SUBMITTED, RUNNING, then TERMINATING and TERMINATED, in that order.
C4_FetchedOncePerRun ==
  \A i \in DOMAIN tasks :
    /\ fetches[i] <= 1
    /\ fetches[i] = 1 => tasks[i].state \in {TERMINATING, TERMINATED}
    /\ tasks[i].state = TERMINATED => fetches[i] = 1
    /\ CycleOver /\ i \in terminating /\ tasks[i].state = TERMINATING
         => fetches[i] = 1
    /\ reports[i] = 0 => tasks[i].state \in {NEW_, SUBMITTED}
    /\ reports[i] = 1 => tasks[i].state = SUBMITTED
    /\ reports[i] = 2 => tasks[i].state = RUNNING
    /\ reports[i] = 3 => tasks[i].state \in {TERMINATING, TERMINATED}
    /\ reports[i] = 3 /\ CycleOver /\ i \in terminating /\ i \notin errors
         => tasks[i].state = TERMINATED

C4_Witness ==
  \E i \in DOMAIN tasks :
    reports[i] = 3 /\ tasks[i].state = TERMINATED /\ fetches[i] = 1

C7_FailedSubmitLeavesRecord ==
  \A j \in DOMAIN jobs : jobs[j].state = NEW_ => jobs[j] = NewJob

C9_SavedOnEveryExit ==
  pc = "exit" =>
    /\ index = IndexRows(tasks)
    /\ \A i \in DOMAIN tasks :
         /\ tasks[i].persistent_id \in DOMAIN store
         /\ store[tasks[i].persistent_id].data = tasks[i]

\* C10: after process_args no two tasks of the session share a jobname.
C10_JobnamesUnique ==
  pc # "process_args" =>
    \A i, j \in DOMAIN tasks : i # j => tasks[i].jobname # tasks[j].jobname

\* the optimizer has taken in the values of its first population
Updated == cur_iter >= 0 /\ S_vals # << >>

\* C11: an update with parent values V and offspring values V' leaves at
\* every index k the offspring and its value iff V'[k] < V[k], the parent and
\* its value otherwise; ties keep the parent.
C11_SurvivorSelection ==
  [][ de_pc = "evaluate" /\ cur_iter > 0 =>
        \A k \in 1..PopSize :
          /\ S_tempvals'[k] < S_vals[k] => pop'[k] = ui[k] /\ S_vals'[k] = S_tempvals'[k]
          /\ S_tempvals'[k] >= S_vals[k] => pop'[k] = pop[k] /\ S_vals'[k] = S_vals[k] ]_vars

C11_Witness ==
  /\ de_pc = "idle"
  /\ cur_iter > 0
  /\ \E j, k, m \in 1..PopSize :
       /\ pop[j] = ui[j] /\ S_vals[j] = S_tempvals[j]
       /\ pop[k] # ui[k] /\ S_vals[k] = S_tempvals[k]
       /\ pop[m] # ui[m] /\ S_vals[m] < S_tempvals[m]

\* C12: best_value never increases, whatever values the offspring get.
C12_BestValueNeverIncreases ==
  [][ Updated => S_bestval' <= S_bestval ]_vars

C12_Witness ==
  /\ de_pc = "idle"
  /\ cur_iter > 0
  /\ \A k \in 1..PopSize : S_tempvals[k] > S_bestval

\* C13: the population, the values and the offspring handed out for
\* evaluation hold exactly pop_size entries around every cycle, for any
\* constraint function.
C13_PopulationSize ==
  /\ cur_iter >= 0 => Len(pop) = PopSize
  /\ Updated => Len(S_vals) = PopSize
  /\ de_pc = "evaluate" => Len(ui) = PopSize
  /\ de_pc = "idle" /\ Updated => Len(ui) = PopSize /\ Len(S_tempvals) = PopSize

C13_Witness ==
  /\ de_pc = "evaluate"
  /\ cur_iter > 1
  /\ nlc = "origin"
  /\ Len(ui) = PopSize
  /\ \E k \in 1..PopSize : pop[k] # ui[k]

\* C14: after the first update best_value is at most every value of the
\* current population.
C14_BestValueBelowValues ==
  variant = "gc3libs" /\ Updated => \A k \in 1..PopSize : S_bestval <= S_vals[k]

C14_Witness ==
  /\ variant = "gc3libs"
  /\ de_pc = "idle"
  /\ cur_iter > 0
  /\ \E j, k \in 1..PopSize :
       /\ S_tempvals[j] = S_bestval /\ pop[j] = ui[j]
       /\ S_vals[k] > S_bestval

\* C15 as claimed: with a constraint function installed every member of the
\* initial population, of every offspring population handed out and of
\* every surviving population satisfies the constraints.
C15_EveryMemberFeasible ==
  /\ \A k \in DOMAIN pop : Feasible(nlc, pop[k])
  /\ de_pc = "evaluate" => \A k \in DOMAIN ui : Feasible(nlc, ui[k])

\* C15 amended: every offspring handed out for evaluation satisfies the
\* constraints, and so does every member of the initial and of the surviving
\* populations except a member of the initial population for which the
\* resample step used up its draws.
C15_FeasibleUnlessOutOfDraws ==
  /\ \A k \in DOMAIN pop : ~ Feasible(nlc, pop[k]) => k \in exhausted
  /\ de_pc = "evaluate" /\ cur_iter > 0 => \A k \in DOMAIN ui : Feasible(nlc, ui[k])
  /\ de_pc = "evaluate" /\ cur_iter = 0 =>
       \A k \in DOMAIN ui : ~ Feasible(nlc, ui[k]) => k \in exhausted

C15_Witness ==
  /\ nlc = "origin"
  /\ de_pc = "idle"
  /\ cur_iter > 0
  /\ exhausted # {}
  /\ \E j, k \in 1..PopSize :
       /\ ~ Feasible(nlc, pop[j])
       /\ pop[k] = ui[k] /\ S_vals[k] = S_tempvals[k] /\ Feasible(nlc, pop[k])

\* C16: once has_converged() has returned True it returns True ever after,
\* also after further iterations.
C16_ConvergedForGood ==
  [][ variant = "gc3libs" /\ converged => converged' ]_vars

\* C17: after every update has_converged() is True iff cur_iter > itermax, or
\* best_value < y_conv_crit, or every member is within x_conv_crit of member 0
\* in every dimension.
C17_ConvergenceCriteria ==
  variant = "gc3libs" /\ de_pc = "idle" /\ Updated =>
    ( converged <=>
        \/ cur_iter > itermax
        \/ S_bestval < y_conv_crit
        \/ \A k \in 1..PopSize : \A d \in 1..Dim :
             /\ pop[k][d] - pop[1][d] <= x_conv_crit
             /\ pop[1][d] - pop[k][d] <= x_conv_crit )

C17_Witness ==
  /\ variant = "gc3libs"
  /\ de_pc = "idle"
  /\ cur_iter = itermax
  /\ cur_iter > 0
  /\ converged
  /\ S_bestval >= y_conv_crit

\* C18: after every update best_vector_of_generation is a member of the
\* population with the smallest value, and evolve and re-evolve leave it alone.
C18_BestOfGeneration ==
  /\ [] ( variant = "gc3libs" /\ Updated =>
            \E k \in 1..PopSize :
              /\ pop[k] = best_iter
              /\ \A j \in 1..PopSize : S_vals[k] <= S_vals[j] )
  /\ [][ de_pc' # "idle" => best_iter' = best_iter ]_vars

C18_Witness ==
  /\ variant = "gc3libs"
  /\ de_pc = "evaluate"
  /\ cur_iter > 1
  /\ de_strategy = 2
  /\ \E k \in 1..PopSize :
       /\ pop[k] = best_iter
       /\ ui[k] = best_iter
       /\ S_tempvals[k] = S_vals[k]
       /\ \E j \in 1..PopSize : S_vals[j] > S_vals[k]

\* bit n of an exit code
Bit(code, n) == (code \div (2 ^ n)) % 2 = 1

\* C19: the exit code computed after a cycle has bit 1 set iff some task has
\* failed, bit 2 iff some task is RUNNING or SUBMITTED, bit 3 iff some task is
\* NEW, no higher bit, and bit 0 not at all.
C19_ExitCodeBits ==
  pc = "returned" =>
    /\ Bit(rc, 1) <=> \E i \in DOMAIN tasks : tasks[i].state = TERMINATED /\ tasks[i].failed
    /\ Bit(rc, 2) <=> \E i \in DOMAIN tasks : tasks[i].state \in {RUNNING, SUBMITTED}
    /\ Bit(rc, 3) <=> \E i \in DOMAIN tasks : tasks[i].state = NEW_
    /\ ~ Bit(rc, 0)
    /\ rc < 16

C19_Witness ==
  /\ pc = "returned"
  /\ rc = 6
  /\ \E i, j \in DOMAIN tasks :
       /\ tasks[i].state = TERMINATED /\ tasks[i].failed
       /\ tasks[j].state = SUBMITTED

\* C20: the script returns 0 only when every task has terminated
\* successfully, and with --wait it stops looping only when every task is
\* finished: never while a task is STOPPED, UNKNOWN or TERMINATING.
C20_ZeroMeansAllDone ==
  pc = "exit" /\ exc = "none" =>
    /\ rc = 0 => \A i \in DOMAIN tasks : tasks[i].state = TERMINATED /\ ~ tasks[i].failed
    /\ wait > 0 /\ rc <= 3 => \A i \in DOMAIN tasks : tasks[i].state = TERMINATED


\* C21: every newly assigned persistent id is greater than every id assigned
\* before it, whatever saves, removes and restarts came in between, so no id
\* is handed out twice.
C21_IdsStrictlyIncreasing ==
  \A i, j \in 1..Len(assigned) : i < j => assigned[i] < assigned[j]

\* the rows of the jobs table that hold object o
RecordsOf(o) == { k \in DOMAIN db' : db'[k].jobname = o }

\* C22: an object's persistent id is assigned at its first save and never
\* changes: a later save of the same object returns the same id and leaves
\* exactly one stored record for it; no other operation of the process that
\* holds the object touches its id.
C22_IdAssignedOnce ==
  [][ /\ \A o \in SqlObjNames :
           sql_op'[1] # "restart" /\ objs[o].persistent_id # 0
             => objs'[o].persistent_id = objs[o].persistent_id
      /\ \A o \in SqlObjNames :
           sql_op' = << "resave", o >>
             => /\ returned' = objs[o].persistent_id
                /\ RecordsOf(o) = { objs[o].persistent_id }
      /\ \A o \in SqlObjNames :
           sql_op' = << "save", o >>
             => /\ returned' = objs'[o].persistent_id
                /\ RecordsOf(o) = { returned' } ]_vars

\* an object changed since its first save was saved again, after other
\* objects had been saved in between
C22_Witness ==
  /\ sql_op[1] = "resave"
  /\ Len(assigned) >= 2
  /\ objs[sql_op[2]].persistent_id = assigned[1]
  /\ returned = assigned[1]
  /\ returned \in DOMAIN db
  /\ db[returned].jobstatus = RUNNING

\* C23: under any interleaving of progressive_number() calls from different
\* processes, a call returns no number that a completed call returned, only
\* numbers greater than all those returned by the calls that had completed
\* when it started, and progressive_number(N) returns the numbers that N
\* consecutive single calls would.
C23_ProgressiveNumbers ==
  [][ \A p \in Procs :
        pn_pc[p] = "return" /\ pn_pc'[p] = "idle"
          => /\ Numbers(pn_read[p], pn_qty[p]) \cap pn_out = {}
             /\ \A n \in Numbers(pn_read[p], pn_qty[p]) : n > pn_floor[p]
             /\ pn_qty[p] > 0 =>
                  Numbers(pn_read[p], pn_qty[p])
                    = SingleCalls(pn_read[p], pn_qty[p]) ]_vars

\* the canonical mapping of native status strings, as the specification
\* lists it
StatusTable(w) ==
  IF w \in { <<"P","E","N","D">>, <<"Q">>, <<"W">> } THEN SUBMITTED
  ELSE IF w \in { <<"R","U","N">>, <<"R">> } THEN RUNNING
  ELSE IF w \in { <<"D","O","N","E">>, <<"E","X","I","T">>, <<"C">>, <<"E">> }
    THEN TERMINATING
  ELSE IF w \in { <<"S">>, <<"H">>, <<"T">>, <<"q","h">> } THEN STOPPED
  ELSE UNKNOWN

C25_ResubmissionBounded ==
  /\ [](\A i \in DOMAIN tasks : tasks[i].retried <= MaxRetries)
  /\ [][ \A i \in DOMAIN tasks :
           /\ tasks[i].state # NEW_ /\ tasks'[i].state = NEW_
                => /\ tasks[i].retried < MaxRetries
                   /\ tasks'[i].retried = tasks[i].retried + 1
           /\ tasks'[i].retried >= tasks[i].retried
           /\ tasks[i].retried = MaxRetries /\ tasks[i].state = TERMINATED
                => tasks'[i].state = TERMINATED ]_vars

\* a task that used up its retries failed again and was left TERMINATED
C25_Witness ==
  \E i \in DOMAIN tasks :
    /\ tasks[i].retried = MaxRetries
    /\ tasks[i].state = TERMINATED
    /\ tasks[i].failed
    /\ fetches[i] = 1

\* the object made for proxy p is in memory, or in the row the proxy would
\* load it from
InMemoryOrLoadable(p) ==
  \/ px[p].obj = p
  \/ /\ px[p].obj = 0
     /\ px[p].obj_id \in DOMAIN pool_db
     /\ pool_db[px[p].obj_id] = p

\* a proxy lets go of its object only in a step that saved it, and
\* proxy_saved() is True only for a proxy that let go of it
ReleasedOnlyWhenSaved ==
  \A p \in DOMAIN px :
    /\ px[p].obj # 0 /\ px'[p].obj = 0
         => /\ storage
            /\ px'[p].saved
            /\ px'[p].obj_id \in DOMAIN pool_db'
    /\ px'[p].saved => px'[p].obj = 0

\* C26: a proxy releases its in-memory object only after the object was
\* saved; without a storage, or when the save raises, proxy_forget() keeps
\* the object and proxy_saved() stays False; so at all times the proxied
\* object is in memory or loadable from storage.
C26_InMemoryOrLoadable ==
  /\ [](\A p \in DOMAIN px : InMemoryOrLoadable(p))
  /\ [][ReleasedOnlyWhenSaved]_vars

\* C27: after proxy_forget() with a storage configured, reading an attribute
\* through the proxy reloads the object and returns the value the attribute
\* had before forgetting.
C27_ForgetIsTransparent ==
  [][ \A p \in DOMAIN px :
        px_op'.op = "read" /\ px_op'.p = p /\ px[p].obj = 0 /\ storage
          => /\ px_op'.error = "none"
             /\ px_op'.result = p
             /\ px'[p].obj = p ]_vars

\* the step is a MemoryPool.add(), called directly or by Proxy.__init__
IsAdd == px_op'.op \in { "add", "new" }

RefreshLeaves ==
  /\ Cardinality(Living(px'))
       = (IF minobjects = -1 THEN maxobjects \div 2 ELSE minobjects)
  /\ \A p \in DOMAIN px' \ Living(px') : px'[p].saved /\ px'[p].obj = 0
  /\ \A p \in Living(px') : px'[p].obj # 0
  /\ DOMAIN px' = DOMAIN px

MoreThanMinobjects ==
  Cardinality(Living(px))
    > (IF minobjects = -1 THEN maxobjects \div 2 ELSE minobjects)

C30_OldestEvictedFirst ==
  [][ px_op'.op \in { "refresh", "add" } /\ ~ px_op'.raised
        => \A f, l \in DOMAIN px :
             /\ px[f].obj # 0 /\ px'[f].obj = 0
             /\ px[l].obj # 0 /\ px'[l].obj # 0
             => px[l].last_access >= px[f].last_access ]_vars

(***************************************************************************)
(* Construction of the optimizer and the index shuffle of modify()         *)
(* (optimizer/dif_evolution.py 98-155 and 318-335; the same code is in     *)
(* branches/ibf/difEvoKenPrice.py 72-77 and 227-237).                      *)
(***************************************************************************)
\* the prob_crossover arguments tried, in halves: -0.5, 0, 0.5, 1 and 1.5
CrossoverArgs == -1..3

\* the check of prob_crossover left out
CheckedCrossover_Kept(cr) == cr

\* __init__: self.prob_crossover after the check of the interval [0,1]
CheckedCrossover(cr) == IF cr < 0 \/ cr > 2 THEN 1 ELSE cr

\* __init__: the records handed to self.logger, in order
InitLog(n, cr) ==
  ( IF cr < 0 \/ cr > 2
      THEN << [level |-> "DEBUG", about |-> "prob_crossover"] >>
      ELSE << >> )
  \o ( IF n < 5
         THEN << [level |-> "WARNING", about |-> "pop_size"] >>
         ELSE << >> )

\* np.random.permutation(4), taken as it is
Ind_NoPlusOne(p) == p

\* ind = np.random.permutation(4) + 1
Ind(p) == [ i \in 1..4 |-> p[i] + 1 ]

\* a[rt] with rt = (rot + shift) % pop_size and rot = arange(pop_size)
Take(a, shift, n) == [ i \in 1..n |-> a[((i - 1 + shift) % n) + 1] ]

\* the index arrays << a1, a2, a3, a4, a5 >> of modify
IndexArrays(a1, ind, n) ==
  LET a2 == Take(a1, ind[1], n)
      a3 == Take(a2, ind[2], n)
      a4 == Take(a3, ind[3], n)
      a5 == Take(a4, ind[4], n)
  IN  << a1, a2, a3, a4, a5 >>

InitMod ==
  /\ mod_pc = "args"
  /\ pop_size \in 1..MaxPopSize
  /\ crossover_arg \in CrossoverArgs
  /\ prob_crossover = crossover_arg
  /\ logged = << >>
  /\ shuffled = << >>
  /\ RsNotUsed
  /\ PaNotUsed
  /\ RunNotUsed
  /\ GrosNotUsed
  /\ SQLNotUsed
  /\ PNNotUsed
  /\ PXNotUsed
  /\ DriverNotUsed
  /\ EC2NotUsed
  /\ DENotUsed

\* DifferentialEvolution.__init__
ModConstruct ==
  /\ mod_pc = "args"
  /\ mod_pc' = "built"
  /\ prob_crossover' = CheckedCrossover(crossover_arg)
  /\ logged' = InitLog(pop_size, crossover_arg)
  /\ UNCHANGED << pop_size, crossover_arg, shuffled >>
  /\ UNCHANGED << driverVars, ec2Vars, deVars, sqlVars, pnVars, pxVars, rsVars,
                  paVars, runVars, grosVars >>

\* one call of modify(), as far as the index arrays: the draws of
\* np.random.permutation are any permutation
ModShuffle ==
  /\ mod_pc = "built"
  /\ mod_pc' = "modified"
  /\ \E p \in Perms(0..3), a1 \in Perms(0..(pop_size - 1)) :
       shuffled' = [ ind |-> Ind(p),
                     a |-> IndexArrays(a1, Ind(p), pop_size) ]
  /\ UNCHANGED << pop_size, crossover_arg, prob_crossover, logged >>
  /\ UNCHANGED << driverVars, ec2Vars, deVars, sqlVars, pnVars, pxVars, rsVars,
                  paVars, runVars, grosVars >>

\* modify() returns: its index arrays are local to the call
ModReturn ==
  /\ mod_pc = "modified"
  /\ mod_pc' = "built"
  /\ shuffled' = << >>
  /\ UNCHANGED << pop_size, crossover_arg, prob_crossover, logged >>
  /\ UNCHANGED << driverVars, ec2Vars, deVars, sqlVars, pnVars, pxVars, rsVars,
                  paVars, runVars, grosVars >>

NextMod == ModConstruct \/ ModShuffle \/ ModReturn

SpecMod == InitMod /\ [][NextMod]_vars

\* C31: in every call of modify, each of the four rotation offsets is
\* non-zero modulo pop_size, for every pop_size the constructor accepts.
C31_OffsetsNonZero ==
  mod_pc = "modified"
    => \A i \in 1..4 : shuffled.ind[i] % pop_size # 0

\* C31, amended: the same for every pop_size >= 5.
C31_OffsetsNonZeroFrom5 ==
  mod_pc = "modified" /\ pop_size >= 5
    => \A i \in 1..4 : shuffled.ind[i] % pop_size # 0

\* a call of modify with pop_size = 5 that drew the offset 4
C31_Witness ==
  /\ mod_pc = "modified"
  /\ pop_size = 5
  /\ shuffled.ind[1] = 4
  /\ shuffled.a[2] # shuffled.a[1]

\* what C32 says of a constructed optimizer, with the level of the record
\* logged for a crossover probability outside [0,1]
CrossoverChecked(level) ==
  mod_pc # "args"
    => /\ crossover_arg \in 0..2 => prob_crossover = crossover_arg
       /\ crossover_arg \notin 0..2
            => /\ prob_crossover = 1
               /\ \E i \in DOMAIN logged :
                    logged[i] = [level |-> level, about |-> "prob_crossover"]

maxDrawSize_OneMore == PopSize * DrawFactor + 1

\* maxDrawSize = self.pop_size * 100
maxDrawSize == PopSize * DrawFactor

\* the pop handed in is drawPopulation(pop_size, dim): points of the box
InitRs ==
  /\ rs_pc = "for"
  /\ rs_nlc \in Filters
  /\ rs_pop \in [ 1..PopSize -> BoxVectors ]
  /\ ixEle = 0
  /\ ctr = 0
  /\ rs_draws = [ k \in 1..PopSize |-> 0 ]
  /\ rs_log = {}
  /\ ModNotUsed
  /\ PaNotUsed
  /\ RunNotUsed
  /\ GrosNotUsed
  /\ SQLNotUsed
  /\ PNNotUsed
  /\ PXNotUsed
  /\ DriverNotUsed
  /\ EC2NotUsed
  /\ DENotUsed

RsFrame == UNCHANGED << driverVars, ec2Vars, deVars, sqlVars, pnVars, pxVars,
                        modVars, paVars, runVars, grosVars >>

\* for ixEle, ele in enumerate(pop): constr = self.nlc(ele); ctr = 0
RsForNext ==
  /\ rs_pc = "for"
  /\ ixEle < PopSize
  /\ ixEle' = ixEle + 1
  /\ ctr' = 0
  /\ rs_pc' = "while"
  /\ UNCHANGED << rs_nlc, rs_pop, rs_draws, rs_log >>
  /\ RsFrame

\* the body of the while loop: the member is drawn again, and constr is
\* computed on it (ele is a view of the row of pop just written)
RsDraw ==
  /\ rs_pc = "while"
  /\ ~ Feasible(rs_nlc, rs_pop[ixEle])
  /\ ctr < maxDrawSize
  /\ \E x \in BoxVectors : rs_pop' = [ rs_pop EXCEPT ![ixEle] = x ]
  /\ ctr' = ctr + 1
  /\ rs_draws' = [ rs_draws EXCEPT ![ixEle] = @ + 1 ]
  /\ UNCHANGED << rs_pc, rs_nlc, ixEle, rs_log >>
  /\ RsFrame

\* the while loop is left; if ctr >= maxDrawSize: self.logger.debug(...)
RsEndWhile ==
  /\ rs_pc = "while"
  /\ Feasible(rs_nlc, rs_pop[ixEle]) \/ ctr >= maxDrawSize
  /\ rs_log' = IF ctr >= maxDrawSize THEN rs_log \cup { ixEle } ELSE rs_log
  /\ rs_pc' = "for"
  /\ UNCHANGED << rs_nlc, rs_pop, ixEle, ctr, rs_draws >>
  /\ RsFrame

\* return pop
RsReturn ==
  /\ rs_pc = "for"
  /\ ixEle = PopSize
  /\ rs_pc' = "done"
  /\ UNCHANGED << rs_nlc, rs_pop, ixEle, ctr, rs_draws, rs_log >>
  /\ RsFrame

NextRs == RsForNext \/ RsDraw \/ RsEndWhile \/ RsReturn

SpecRs == InitRs /\ [][NextRs]_vars

\* the statements of the method run one after the other until it returns
SpecRsFair == SpecRs /\ WF_vars(NextRs)

\* an infeasible member whose budget is used up is left as it is, and the
\* loop goes on to the next member
ExhaustedLeftInPlace ==
  ( /\ rs_pc = "while"
    /\ ~ Feasible(rs_nlc, rs_pop[ixEle])
    /\ ctr >= PopSize * DrawFactor )
    => /\ rs_pop' = rs_pop
       /\ rs_pc' = "for"
       /\ ixEle' = ixEle

\* C33: the resample step terminates; each member is redrawn at most
\* pop_size * 100 times (pop_size * DrawFactor here), and a feasible one
\* never; when the budget of an infeasible member is used up, the member is
\* left in place and the step goes on with the next one.
C33_ResampleTerminates ==
  /\ <>(rs_pc = "done")
  /\ [](\A k \in DOMAIN rs_draws : rs_draws[k] <= PopSize * DrawFactor)
  /\ [][ExhaustedLeftInPlace]_vars

\* the step returned with a member still infeasible after all its draws
C33_Witness ==
  /\ rs_pc = "done"
  /\ \E k \in 1..PopSize :
       /\ rs_draws[k] = PopSize * DrawFactor
       /\ ~ Feasible(rs_nlc, rs_pop[k])
       /\ k \in rs_log
       /\ k < PopSize

C39_FreeRecordsVm ==
  [][ ec2_call'.op = "free"
        => LET j == ec2_call'.job
               id == jobs[j].ec2_instance_id
           IN  /\ ~ ec2_call'.raised
               /\ \E i \in DOMAIN jobs'[j].ec2_used_instance_ids :
                    jobs'[j].ec2_used_instance_ids[i] = id
               /\ vms'[id] # vms[id] => RemainingOn(id, j) = {} ]_vars

(***************************************************************************)
(* The loop of process_args that adds the new jobs to the session, item by *)
(* item, in the two trees of the repository: gc3pie/gc3libs/cmdline.py     *)
(* 646-670 and gc3utils/gc3libs/cmdline.py 511-540 (there in _main).       *)
(***************************************************************************)
Trees == { "gc3pie", "gc3utils" }

InitPA ==
  /\ pa_tree \in Trees
  /\ pa_tasks \in LoadedSessions
  /\ pa_names = { pa_tasks[i].jobname : i \in DOMAIN pa_tasks }
  /\ pa_items \in SeqsUpTo(NewJobItems, MaxNewJobs)
  /\ pa_k = 1
  /\ pa_app = << >>
  /\ pa_pc = "loop"
  /\ ModNotUsed
  /\ RsNotUsed
  /\ RunNotUsed
  /\ GrosNotUsed
  /\ SQLNotUsed
  /\ PNNotUsed
  /\ PXNotUsed
  /\ DriverNotUsed
  /\ EC2NotUsed
  /\ DENotUsed

PaFrame == UNCHANGED << driverVars, ec2Vars, deVars, sqlVars, pnVars, pxVars,
                        modVars, rsVars, runVars, grosVars >>

PaAtItem == pa_pc = "loop" /\ pa_k <= Len(pa_items)

\* if jobname in existing_job_names: continue
PaSkip ==
  /\ PaAtItem
  /\ pa_items[pa_k].jobname \in pa_names
  /\ pa_k' = pa_k + 1
  /\ UNCHANGED << pa_tree, pa_tasks, pa_names, pa_items, pa_app, pa_pc >>
  /\ PaFrame

\* app = cls(*args, **kwargs) returns; self.tasks.append(app)
PaBuild ==
  /\ PaAtItem
  /\ pa_items[pa_k].jobname \notin pa_names
  /\ ~ pa_items[pa_k].raises
  /\ pa_app' = << NewTask(pa_items[pa_k].jobname) >>
  /\ pa_tasks' = Append(pa_tasks, NewTask(pa_items[pa_k].jobname))
  /\ pa_k' = pa_k + 1
  /\ UNCHANGED << pa_tree, pa_names, pa_items, pa_pc >>
  /\ PaFrame

\* what follows `except Exception` once cls(*args, **kwargs) raised: in
\* gc3pie the append is inside the try and is skipped; in gc3utils
\* self.tasks.append(app) comes after the try statement and appends what app
\* is bound to, or raises NameError when it is bound to nothing yet
AfterRaise(tree, ts, app) ==
  IF tree = "gc3pie" THEN [ tasks |-> ts, pc |-> "loop" ]
  ELSE IF app = << >> THEN [ tasks |-> ts, pc |-> "raised" ]
  ELSE [ tasks |-> Append(ts, app[1]), pc |-> "loop" ]

\* app = cls(*args, **kwargs) raises
PaBuildRaises ==
  /\ PaAtItem
  /\ pa_items[pa_k].jobname \notin pa_names
  /\ pa_items[pa_k].raises
  /\ pa_tasks' = AfterRaise(pa_tree, pa_tasks, pa_app).tasks
  /\ pa_pc' = AfterRaise(pa_tree, pa_tasks, pa_app).pc
  /\ pa_k' = pa_k + 1
  /\ UNCHANGED << pa_tree, pa_names, pa_items, pa_app >>
  /\ PaFrame

\* the for loop is over
PaDone ==
  /\ pa_pc = "loop"
  /\ pa_k > Len(pa_items)
  /\ pa_pc' = "done"
  /\ UNCHANGED << pa_tree, pa_tasks, pa_names, pa_items, pa_k, pa_app >>
  /\ PaFrame

NextPA == PaSkip \/ PaBuild \/ PaBuildRaises \/ PaDone

SpecPA == InitPA /\ [][NextPA]_vars

\* the item the loop is at is new to the session and its construction raises
ConstructionRaises ==
  /\ PaAtItem
  /\ pa_items[pa_k].jobname \notin pa_names
  /\ pa_items[pa_k].raises

\* C35: an item whose construction raises adds nothing to the session: the
\* task list is left as it was, and the loop goes on with the other items.
C35_FailedItemAddsNothing ==
  [][ ConstructionRaises => pa_tasks' = pa_tasks /\ pa_pc' = "loop" ]_vars

\* the same, in gc3pie/gc3libs/cmdline.py alone
C35_FailedItemAddsNothingInGc3pie ==
  [][ ConstructionRaises /\ pa_tree = "gc3pie"
        => pa_tasks' = pa_tasks /\ pa_pc' = "loop" ]_vars

(***************************************************************************)
(* _Script.run (gc3pie/gc3libs/cmdline.py 257-322).                        *)
(***************************************************************************)
\* what cli.app.CommandLineApp.run(self) does: it returns a status ("none"),
\* or raises; SystemExit and cli.app.Abort carry a status
RunExceptions ==
  [ kind : { "none", "SystemExit", "Abort" }, code : 0..MaxStatus ]
  \cup [ kind : { "InvalidUsage", "KeyboardInterrupt", "lockfile.Error",
                  "AssertionError", "EnvironmentError", "Exception" },
         code : { 0 } ]

\* logging: self.log.critical(...) works; backtrace: self.params.verbose >
\* self.verbose_logging_threshold + 2
RunEnvs == [ logging : BOOLEAN, backtrace : BOOLEAN ]

Returned(n) == [ returned |-> n, escaped |-> "none" ]

\* the `rc` the handlers of lockfile.Error, AssertionError and Exception set
HandlerRc(ex) ==
  CASE ex.kind = "Abort" -> ex.code
    [] ex.kind = "EnvironmentError" -> 74
    [] OTHER -> 1

\* the closing stanza ends with `return 1`, whatever rc is
ClosingReturn(code) == 1

\* run(): the handler taken, then the closing stanza; in the handler of
\* Exception exc_info is not bound, so sys.excepthook(*exc_info) raises
\* NameError when logging fails and a backtrace is asked for
Run(ex, env) ==
  CASE ex.kind = "none" -> Returned(ex.code)
    [] ex.kind = "InvalidUsage" -> Returned(64)
    [] ex.kind = "KeyboardInterrupt" -> Returned(13)
    [] ex.kind = "SystemExit" -> Returned(ex.code)
    [] ex.kind \in { "lockfile.Error", "AssertionError" } ->
         Returned(ClosingReturn(HandlerRc(ex)))
    [] OTHER ->
         IF ~ env.logging /\ env.backtrace
           THEN [ returned |-> 0, escaped |-> "NameError" ]
           ELSE Returned(ClosingReturn(HandlerRc(ex)))

InitRun ==
  /\ run_pc = "call"
  /\ run_exc \in RunExceptions
  /\ run_env \in RunEnvs
  /\ run_result = Returned(0)
  /\ ModNotUsed
  /\ RsNotUsed
  /\ PaNotUsed
  /\ GrosNotUsed
  /\ SQLNotUsed
  /\ PNNotUsed
  /\ PXNotUsed
  /\ DriverNotUsed
  /\ EC2NotUsed
  /\ DENotUsed

RunCall ==
  /\ run_pc = "call"
  /\ run_pc' = "returned"
  /\ run_result' = Run(run_exc, run_env)
  /\ UNCHANGED << run_exc, run_env >>
  /\ UNCHANGED << driverVars, ec2Vars, deVars, sqlVars, pnVars, pxVars,
                  modVars, rsVars, paVars, grosVars >>

NextRun == RunCall

SpecRun == InitRun /\ [][NextRun]_vars

\* C36: run() lets no exception escape and returns 64 for InvalidUsage, 13
\* for KeyboardInterrupt, the code of a SystemExit, the status of a
\* cli.app.Abort, 74 for an EnvironmentError and 1 for any other exception.
C36_ExitCodeMatchesFailure ==
  ( run_pc = "returned" /\ run_exc.kind # "none" )
    => /\ run_result.escaped = "none"
       /\ run_result.returned =
            CASE run_exc.kind = "InvalidUsage" -> 64
              [] run_exc.kind = "KeyboardInterrupt" -> 13
              [] run_exc.kind \in { "SystemExit", "Abort" } -> run_exc.code
              [] run_exc.kind = "EnvironmentError" -> 74
              [] OTHER -> 1

\* C37: for every pop_size >= 5 and every draw, the index arrays differ at
\* every position: a1[k], a2[k] and a3[k] are three distinct indices.
C37_IndexArraysDistinct ==
  mod_pc = "modified" /\ pop_size >= 5
    => \A k \in 1..pop_size :
         /\ shuffled.a[1][k] # shuffled.a[2][k]
         /\ shuffled.a[2][k] # shuffled.a[3][k]
         /\ shuffled.a[1][k] # shuffled.a[3][k]

(***************************************************************************)
(* deopt(): `while not converged: converged = self.iterate()`              *)
(* (optimizer/dif_evolution.py 172-180), on a new optimizer.               *)
(***************************************************************************)
\* <<itermax, y_conv_crit, x_conv_crit>> with an iteration limit the
\* iterations followed can pass
DeoptCriteria ==
  { <<imax, 0, 0>> : imax \in 0..(MaxIter - 1) }
    \cup { <<MaxIter - 1, 1, 0>>, <<MaxIter - 1, 0, 1>> }

\* the optimizer is given the constraint function that rejects all but the
\* origin, under which re-evolve steps happen
InitDeopt ==
  /\ \E c \in DeoptCriteria :
       DEConstructed("gc3libs", "origin", 1, c[1], c[2], c[3])
  /\ DriverNotUsed
  /\ EC2NotUsed
  /\ LibNotUsed

\* the first pass of the loop: iterate() draws the initial sample
DeoptFirstIterate == ~ converged /\ DrawInitialSample

\* a later pass of the loop: iterate() evolves the population
DeoptIterate == ~ converged /\ Evolve

\* iterate() returned True: the loop is left and deopt() returns
DeoptReturn ==
  /\ de_pc = "idle"
  /\ converged
  /\ de_pc' = "exited"
  /\ UNCHANGED << deParams, cur_iter, pop, S_vals, S_bestval, best, best_iter,
                  ui, S_tempvals, popNew, converged, exhausted >>
  /\ UNCHANGED << driverVars, ec2Vars, libVars >>

NextDeopt ==
  \/ DeoptFirstIterate
  \/ DeoptIterate
  \/ ReEvolve
  \/ Update
  \/ DeoptReturn

SpecDeopt == InitDeopt /\ [][NextDeopt]_vars

\* the statements of deopt() and iterate() run one after the other
SpecDeoptFair == SpecDeopt /\ WF_vars(NextDeopt)

\* C38: deopt() calls iterate() at most itermax + 2 times (each call adds
\* one to cur_iter, which starts at -1) and then returns, unless a
\* constraint re-evolve step never returns.
C38_DeoptTerminates ==
  /\ [](cur_iter + 1 <= itermax + 2)
  /\ <>[](de_pc = "reevolve") \/ <>(de_pc = "exited")

\* deopt() returned after itermax + 2 calls of iterate()
C38_Witness ==
  /\ de_pc = "exited"
  /\ itermax = 1
  /\ cur_iter + 1 = itermax + 2

(***************************************************************************)
(* grosetta (tags/1.0rc5/gc3pie/gc3apps/rosetta/grosetta.py): the jobs     *)
(* process_args asks for, and the ones the session takes in.               *)
(***************************************************************************)
DigitChars == << "0", "1", "2", "3", "4", "5", "6", "7", "8", "9" >>

\* '%d' % n, for n >= 0
RECURSIVE FormatInt(_)
FormatInt(n) ==
  IF n < 10 THEN << DigitChars[n + 1] >>
  ELSE FormatInt(n \div 10) \o << DigitChars[(n % 10) + 1] >>

\* int(s), for a string of digits
RECURSIVE ParseInt(_)
ParseInt(str) ==
  IF str = << >> THEN 0
  ELSE 10 * ParseInt(SubSeq(str, 1, Len(str) - 1))
         + (CHOOSE d \in 0..9 : DigitChars[d + 1] = str[Len(str)])

\* "%d--%d" % (first, last)
JobName(first, last) == FormatInt(first) \o << "-", "-" >> \o FormatInt(last)

\* start, end = task.jobname.split('--')
SplitName(jobname) ==
  LET at == CHOOSE i \in 1..(Len(jobname) - 1) :
              /\ jobname[i] = "-" /\ jobname[i + 1] = "-"
              /\ \A k \in 1..(i - 1) : ~ (jobname[k] = "-" /\ jobname[k + 1] = "-")
  IN  << SubSeq(jobname, 1, at - 1), SubSeq(jobname, at + 2, Len(jobname)) >>

\* decoys += int(end) - int(start)
DecoysOf(jobname) ==
  ParseInt(SplitName(jobname)[2]) - ParseInt(SplitName(jobname)[1])

\* the number of decoys already being computed in the session
RECURSIVE Decoys(_)
Decoys(ts) ==
  IF ts = << >> THEN 0 ELSE DecoysOf(Head(ts)) + Decoys(Tail(ts))

\* for nr in range(decoys, total, per_job): the jobnames yielded from nr on
RECURSIVE Yielded(_, _, _)
Yielded(nr, total, per_job) ==
  IF nr >= total THEN << >>
  ELSE << JobName(nr, Smaller(total, nr + per_job - 1)) >>
         \o Yielded(nr + per_job, total, per_job)

\* process_args(extra): nothing is yielded unless decoys < total_decoys
GrosettaProcessArgs(ts, total, per_job) ==
  IF Decoys(ts) < total THEN Yielded(Decoys(ts), total, per_job) ELSE << >>

\* the loop of _main over the yielded jobs: a job whose name is in the
\* session already is skipped
Unknown(ts, yielded) ==
  LET IsUnknown(jobname) == \A i \in DOMAIN ts : ts[i] # jobname
  IN  SelectSeq(yielded, IsUnknown)

InitGros ==
  /\ total_decoys \in 1..MaxDecoys
  /\ decoys_per_job \in 1..MaxDecoys
  /\ g_tasks = << >>
  /\ g_runs = 0
  /\ g_last = [ added |-> << >>, raised |-> FALSE ]
  /\ ModNotUsed
  /\ RsNotUsed
  /\ PaNotUsed
  /\ RunNotUsed
  /\ SQLNotUsed
  /\ PNNotUsed
  /\ PXNotUsed
  /\ DriverNotUsed
  /\ EC2NotUsed
  /\ DENotUsed

GrosFrame == UNCHANGED << driverVars, ec2Vars, deVars, sqlVars, pnVars, pxVars,
                          modVars, rsVars, paVars, runVars >>

\* one invocation of grosetta on the session, with -P set to `total`
Invocation(total, raised) ==
  LET added == Unknown(g_tasks,
                       GrosettaProcessArgs(g_tasks, total, decoys_per_job))
  IN  /\ g_runs < MaxRuns
      /\ g_runs' = g_runs + 1
      /\ total_decoys' = total
      /\ g_tasks' = g_tasks \o added
      /\ g_last' = [ added |-> added, raised |-> raised ]
      /\ UNCHANGED decoys_per_job
      /\ GrosFrame

\* grosetta is run with the options it was run with before
GrosRun ==
  /\ total_decoys \in 1..MaxDecoys
  /\ Invocation(total_decoys, FALSE)

\* grosetta is run again with a larger -P
GrosRunRaised ==
  /\ g_runs > 0
  /\ \E total \in (total_decoys + 1)..MaxDecoys : Invocation(total, TRUE)

NextGros == GrosRun \/ GrosRunRaised

SpecGros == InitGros /\ [][NextGros]_vars

\* C40: running grosetta again on a session with the -P and -p values
\* unchanged adds no job, for every total of decoys and decoys per job.
C40_NoNewJobUnlessRaised ==
  [][ g_runs > 0 /\ g_runs' = g_runs + 1 /\ ~ g_last'.raised
        => g_last'.added = << >> ]_vars

====
